---------------------------- MODULE Spec2Model ----------------------------
(***************************************************************************)
(* A model of the Big Bang Gallery front end.                              *)
(*                                                                         *)
(* The page is single threaded: every handler, timer callback and the code *)
(* of an async function between two awaits runs to completion, so each is  *)
(* one action.  The components do not share state, and each has its own   *)
(* specification over its own variables; the variables of the other        *)
(* components stay at their initial value.                                 *)
(*                                                                         *)
(*   Spec         ColorExtractor used through extractColors                *)
(*   SpecGallery  CosmicGallery.init, loadGalleryImages, waitForImage      *)
(*   SpecQuant    ColorExtractor.medianCut, one loop iteration per step    *)
(*   SpecLightbox the lightbox of the three gallery controllers            *)
(*   SpecLazy     the lazy-loading intersection observers                  *)
(*   SpecEffects  explosions, trails, pulse lights and sound voices         *)
(*   SpecInput    keyboard, pointer and timer input of the three scripts   *)
(*   SpecWorker   the service worker: install, activate, fetch             *)
(*   SpecModes    NavigationModes and AudioEngine                          *)
(***************************************************************************)
EXTENDS Integers, Sequences, FiniteSets, TLC

VARIABLES
    \* ColorExtractor
    colorCache,     \* this.colorCache: a Map, here a function on the stored keys
    tainted,        \* the hidden canvas has lost its origin-clean flag
    disposed,       \* dispose() has run
    calls,          \* the extractColors calls: options, position, result
    microtasks,     \* the calls suspended at `await this.analyzeImage(...)`, FIFO
    \* CosmicGallery
    initPc,         \* where init() stands
    initialized,    \* this.initialized
    threw,          \* the step of init() that threw, "none" if none did
    dom,            \* the elements init() and the fallback write to
    startTimer,     \* the 500 ms timer of startExperience is pending
    imgState,       \* per gallery image: the state of the <img> element
    wait,           \* per gallery image: the promise of waitForImage
    imgDone,        \* per gallery image: its loader has returned
    images,         \* this.images
    \* ColorExtractor.medianCut
    mcPixels,       \* the argument pixelArray
    mcCount,        \* the argument colorCount
    mcPc,           \* where the call stands: "idle", "loop", "done"
    boxes,          \* the local array boxes
    mcResults,      \* the calls that returned: arguments and palette
    \* the lightbox
    lbVariant,      \* which controller runs the page
    lightboxes,     \* every .lightbox element created, in creation order
    itemFocused,    \* document.activeElement is a gallery item
    \* lazy loading
    lazyVariant,    \* which script observes the images
    position,       \* per image: where it is relative to the viewport
    observed,       \* per image: it is a target of the observer
    lastIntersecting, \* per image: the observer's previous isIntersecting
    queued,         \* the observer's queued entries
    loaded,         \* per image: classList contains 'loaded'
    reported,       \* the images delivered to the callback as intersecting
    notified,       \* the images delivered to the callback at all
    everNear,       \* the images that were ever within 50px of the viewport
    \* visual and audio effects
    effects,        \* every effect created, in creation order
    \* keyboard, pointer and timer input
    ctlVariant,     \* which script handles the input
    itemCount,      \* images.length, items.length, containers.length
    currentIndex,   \* currentImageIndex, currentIndex
    attached,       \* the listeners of CosmicGallery that are attached
    autoplay,       \* this.autoplay
    autoplayInterval, \* this.autoplayInterval: never set, running, cleared
    galleryDisposed, \* dispose() of CosmicGallery has run
    lateRuns,       \* the handlers of CosmicGallery that ran after dispose()
    timers,         \* the pending timers of debounce, oldest first
    lastKey,        \* the last keydown: its key, the time since, the runs since
    lastRun,        \* the last run of the debounced function
    throttles,      \* per throttled function: inThrottle, its timer, its runs
    lastMove,       \* the last navigation: the index before, the direction, the index after
    \* the service worker
    cacheStorage,   \* caches: per cache name, the URLs that have a response
    swState,        \* the state of the worker
    cacheNames,     \* what caches.keys() resolved to
    deletes,        \* the caches.delete promises that are pending
    claimed,        \* self.clients.claim() has been called
    requests,       \* the fetch events, in the order they came
    \* NavigationModes and AudioEngine
    currentMode,    \* NavigationModes.currentMode
    galaxyMode,     \* GalaxyEngine.mode
    isTransitioning, \* NavigationModes.isTransitioning
    transitions,    \* the switchMode calls that passed the first check
    loops,          \* per mode: its animation loops that await a frame
    autoNavigate,   \* NavigationModes.autoNavigate
    autoNavInterval, \* autoNavInterval holds an active interval
    targetIndex,    \* targetIndex of startAutoNavigation
    audioEnabled,   \* AudioEngine.enabled
    audioInitialized, \* AudioEngine.initialized
    audioInits,     \* the init() calls that wait for Tone.start()
    synthTriggers   \* the last trigger of a synth: none, played, uninitialized

extractorVars == <<colorCache, tainted, disposed, calls, microtasks>>

galleryVars ==
    <<initPc, initialized, threw, dom, startTimer, imgState, wait, imgDone,
      images>>

quantVars == <<mcPixels, mcCount, mcPc, boxes, mcResults>>

lightboxVars == <<lbVariant, lightboxes, itemFocused>>

effectsVars == <<effects>>

inputVars ==
    <<ctlVariant, itemCount, currentIndex, attached, autoplay,
      autoplayInterval, galleryDisposed, lateRuns, timers, lastKey, lastRun,
      throttles, lastMove>>

workerVars ==
    <<cacheStorage, swState, cacheNames, deletes, claimed, requests>>

modesVars ==
    <<currentMode, galaxyMode, isTransitioning, transitions, loops,
      autoNavigate, autoNavInterval, targetIndex, audioEnabled,
      audioInitialized, audioInits, synthTriggers>>

lazyVars ==
    <<lazyVariant, position, observed, lastIntersecting, queued, loaded,
      reported, notified, everNear>>

vars ==
    <<extractorVars, galleryVars, quantVars, lightboxVars, lazyVars,
      effectsVars,
      inputVars,
      workerVars,
      modesVars>>

\* what the actions of one component leave alone
outsideExtractor ==
    <<quantVars, lightboxVars, lazyVars,
      effectsVars,
      inputVars,
      workerVars,
      modesVars>>

outsideGallery ==
    <<extractorVars, quantVars, lightboxVars, lazyVars,
      effectsVars,
      inputVars,
      workerVars,
      modesVars>>

outsideQuant ==
    <<extractorVars, galleryVars, lightboxVars, lazyVars,
      effectsVars,
      inputVars,
      workerVars,
      modesVars>>

outsideLightbox ==
    <<extractorVars, galleryVars, quantVars, lazyVars,
      effectsVars,
      inputVars,
      workerVars,
      modesVars>>

outsideLazy ==
    <<extractorVars, galleryVars, quantVars, lightboxVars,
      effectsVars,
      inputVars,
      workerVars,
      modesVars>>

outsideEffects ==
    <<extractorVars, galleryVars, quantVars, lightboxVars, lazyVars,
      inputVars,
      workerVars,
      modesVars>>

outsideInput ==
    <<extractorVars, galleryVars, quantVars, lightboxVars, lazyVars,
      effectsVars,
      workerVars,
      modesVars>>

outsideWorker ==
    <<extractorVars, galleryVars, quantVars, lightboxVars, lazyVars,
      effectsVars, inputVars,
      modesVars>>

outsideModes ==
    <<extractorVars, galleryVars, quantVars, lightboxVars, lazyVars,
      effectsVars, inputVars, workerVars>>

(***************************************************************************)
(* Bounds of the model.                                                    *)
(***************************************************************************)
MaxCalls == 3

NumImages == 2

MaxRuns == 2

MaxLightboxes == 3

NumLazy == 2

MaxSwitches == 3

MaxInits == 2

MaxRequests == 2

MaxItems == 3

MaxEffects == 2

(***************************************************************************)
(* Small sequence helpers standing for the Array methods the code uses.    *)
(***************************************************************************)
Range(s) == {s[i] : i \in DOMAIN s}

Max2(a, b) == IF a >= b THEN a ELSE b

Min2(a, b) == IF a <= b THEN a ELSE b

(***************************************************************************)
(* ColorExtractor: program constants.                                      *)
(***************************************************************************)
colorBuckets == 16

defaultCount == 5

alphaThreshold == 125

(***************************************************************************)
(* Colour utility functions.  Brightness and saturation are fractions in   *)
(* the code; here they are per-mille integers, rounded down.  The hex, hsl *)
(* and threeColor fields are derived from rgb alone and are not carried.   *)
(***************************************************************************)
getBrightness(r, g, b) == (299 * r + 587 * g + 114 * b) \div 255

getSaturation(r, g, b) ==
    LET max == Max2(r, Max2(g, b))
        min == Min2(r, Min2(g, b))
    IN  IF max = 0 THEN 0 ELSE ((max - min) * 1000) \div max

colorObject(r, g, b) ==
    [rgb |-> <<r, g, b>>,
     brightness |-> getBrightness(r, g, b),
     saturation |-> getSaturation(r, g, b)]

\* getDefaultPalette: one literal entry, whatever count was asked for
getDefaultPalette ==
    << [rgb |-> <<99, 102, 241>>, brightness |-> 500, saturation |-> 590] >>

\* the five theme palettes of getDefaultPaletteVariation
palettes ==
    << << <<99, 102, 241>>, <<236, 72, 153>>, <<168, 85, 247>>,
          <<129, 140, 248>>, <<244, 114, 182>> >>,
       << <<59, 130, 246>>, <<34, 197, 94>>, <<6, 182, 212>>,
          <<96, 165, 250>>, <<52, 211, 153>> >>,
       << <<251, 146, 60>>, <<239, 68, 68>>, <<245, 158, 11>>,
          <<254, 202, 202>>, <<254, 215, 170>> >>,
       << <<31, 41, 55>>, <<79, 70, 229>>, <<236, 72, 153>>,
          <<17, 24, 39>>, <<249, 168, 212>> >>,
       << <<16, 185, 129>>, <<99, 102, 241>>, <<217, 70, 239>>,
          <<34, 197, 94>>, <<147, 51, 234>> >> >>

(***************************************************************************)
(* The hash of getDefaultPaletteVariation: a = ((a << 5) - a) + code,      *)
(* then a & a, which keeps a as a signed 32-bit integer.  The 32-bit value *)
(* is held as two unsigned 16-bit halves <<hi, lo>> so that no             *)
(* intermediate value leaves the 32-bit integers of TLC.                   *)
(***************************************************************************)
half == 256 * 256

hashStep(a, code) ==
    LET lo == a[2] * 31 + code
        hi == a[1] * 31 + (lo \div half)
    IN  <<hi % half, lo % half>>

RECURSIVE hashFrom(_, _)
hashFrom(a, s) == IF s = <<>> THEN a ELSE hashFrom(hashStep(a, Head(s)), Tail(s))

hashOf(imageSrc) == hashFrom(<<0, 0>>, imageSrc)

\* Math.abs(hash) % n for the signed value of <<hi, lo>>
absMod(a, n) ==
    IF a[1] < half \div 2
    THEN (a[1] * half + a[2]) % n
    ELSE (((half - 1 - a[1]) % n) * (half % n) + (half - a[2])) % n

paletteIndex(imageSrc) == absMod(hashOf(imageSrc), Len(palettes))

\* selectedPalette.map(color => ({rgb: color, ...}))
RECURSIVE toColorObjects(_)
toColorObjects(s) ==
    IF s = <<>> THEN <<>>
    ELSE <<colorObject(Head(s)[1], Head(s)[2], Head(s)[3])>>
            \o toColorObjects(Tail(s))

\* a theme picked by how many palettes are cached so far, not by the
\* address
getDefaultPaletteByIndex(imageSrc) ==
    toColorObjects(palettes[(Cardinality(DOMAIN colorCache) % Len(palettes)) + 1])

getDefaultPaletteVariation(imageSrc) ==
    toColorObjects(palettes[paletteIndex(imageSrc) + 1])

(***************************************************************************)
(* The images handed to extractColors.  An image is <<name, state>>: the   *)
(* object, and the state of its pixel source when the call is made:        *)
(* "none" (no image data at all), "available", "broken" (failed to load or *)
(* decode) or "unavailable" (not loaded yet).  The attributes of an object *)
(* are fixed:                                                              *)
(*   src         image.src as the sequence of its character codes (the     *)
(*               hash reads them one by one), <<>> when there is none      *)
(*   uuid        image.uuid, <<>> when there is none                       *)
(*   crossOrigin the pixel source is cross-origin without CORS approval    *)
(*   pixels      what getImageData returns for it: <<r, g, b, a>>          *)
(* A mesh (image.material.map exists) has a uuid and no src; its pixels    *)
(* come from image.material.map.image.                                     *)
(***************************************************************************)
srcLocal == <<105, 109, 103, 47, 97, 46, 106, 112, 103>>

srcRemote ==
    <<104, 116, 116, 112, 115, 58, 47, 47, 99, 100, 110, 46, 105, 111, 47,
      110, 46, 112, 110, 103>>

uuidMesh == <<109, 49>>

samplePixels ==
    << <<10, 20, 30, 255>>, <<200, 20, 30, 255>>, <<10, 220, 30, 255>>,
       <<10, 20, 230, 255>>, <<200, 220, 30, 255>>, <<200, 220, 230, 255>>,
       <<90, 90, 90, 0>> >>

src(image) ==
    CASE image[1] = "imgLocal" -> srcLocal
      [] image[1] = "imgRemote" -> srcRemote
      [] OTHER -> <<>>

uuid(image) == IF image[1] = "meshBare" THEN uuidMesh ELSE <<>>

crossOrigin(image) == image[1] = "imgRemote"

pixels(image) == IF image[2] = "available" THEN samplePixels ELSE <<>>

Images ==
    {<<"imgLocal", "available">>, <<"imgRemote", "available">>,
     <<"meshBare", "none">>, <<"meshBare", "available">>}

Counts == {3, defaultCount}

\* the distinct visible pixels of an image: the colours of the pixels that
\* analyzeImage does not skip as transparent
distinctVisible(image) ==
    {<<p[1], p[2], p[3]>> :
        p \in {q \in Range(pixels(image)) : q[4] >= alphaThreshold}}

(***************************************************************************)
(* analyzeImage.  It has no await, so it runs to completion inside the     *)
(* caller's step.  Its outcomes:                                           *)
(*   "default"  no image data: getDefaultPalette()                         *)
(*   "cors"     drawImage or getImageData threw inside the try block (a    *)
(*              broken image, or a canvas that is not origin-clean):       *)
(*              getDefaultPaletteVariation(image.src || '')                *)
(*   "throws"   the pixels were read; `pixels` is declared with const      *)
(*              inside the try block and read after it, so the loop header *)
(*              raises a ReferenceError and the promise is rejected        *)
(* The canvas is shared by all calls and only ever cleared with clearRect, *)
(* so once a cross-origin image was drawn on it every later getImageData   *)
(* throws.                                                                 *)
(***************************************************************************)
hasImg(image) == image[2] # "none"

taintsCanvas(image) == image[2] = "available" /\ crossOrigin(image)

analyzePath(image) ==
    IF ~hasImg(image) THEN "default"
    ELSE IF image[2] = "broken" THEN "cors"
    ELSE IF tainted \/ taintsCanvas(image) THEN "cors"
    ELSE "throws"

analyzeImage(image, colorCount, quality) ==
    CASE analyzePath(image) = "default" -> getDefaultPalette
      [] analyzePath(image) = "cors" -> getDefaultPaletteVariation(src(image))
      [] OTHER -> <<>>

taintedAfter(image) ==
    tainted \/ (hasImg(image) /\ taintsCanvas(image))

(***************************************************************************)
(* extractColors.  A palette object is the array analyzeImage returned;    *)
(* `id` is its identity (the call that allocated it), `colors` its         *)
(* entries.  The code before `await this.analyzeImage(...)` is one step    *)
(* (ExtractStart), the code after it another (ExtractResume).              *)
(***************************************************************************)
NoPalette == [id |-> 0, colors |-> <<>>]

IdleCall ==
    [pc |-> "idle", image |-> <<"imgLocal", "available">>, count |-> defaultCount,
     useCache |-> TRUE, path |-> "none", result |-> NoPalette]

cacheKey(image) == IF src(image) # <<>> THEN src(image) ELSE uuid(image)

cacheSet(key, colors) ==
    [k \in DOMAIN colorCache \cup {key} |->
        IF k = key THEN colors ELSE colorCache[k]]

ExtractStart(c, image, count, useCache) ==
    /\ calls[c].pc = "idle"
    /\ IF useCache /\ cacheKey(image) \in DOMAIN colorCache
       THEN /\ calls' = [calls EXCEPT ![c] =
                  [pc |-> "resolved", image |-> image, count |-> count,
                   useCache |-> useCache, path |-> "hit",
                   result |-> colorCache[cacheKey(image)]]]
            /\ UNCHANGED <<tainted, microtasks>>
       ELSE /\ calls' = [calls EXCEPT ![c] =
                  [pc |-> "awaiting", image |-> image, count |-> count,
                   useCache |-> useCache, path |-> analyzePath(image),
                   result |-> [id |-> c,
                               colors |-> analyzeImage(image, count, 10)]]]
            /\ tainted' = taintedAfter(image)
            /\ microtasks' = Append(microtasks, c)
    /\ UNCHANGED <<colorCache, disposed, outsideExtractor>>

ExtractResume ==
    /\ microtasks # <<>>
    /\ LET c == Head(microtasks)
       IN  IF calls[c].path = "throws"
           THEN /\ calls' = [calls EXCEPT ![c].pc = "rejected",
                                          ![c].result = NoPalette]
                /\ UNCHANGED colorCache
           ELSE /\ calls' = [calls EXCEPT ![c].pc = "resolved"]
                /\ colorCache' =
                      IF calls[c].useCache
                      THEN cacheSet(cacheKey(calls[c].image), calls[c].result)
                      ELSE colorCache
    /\ microtasks' = Tail(microtasks)
    /\ UNCHANGED <<tainted, disposed, outsideExtractor>>

\* dispose(): the canvas is removed and the cache cleared
Dispose ==
    /\ ~disposed
    /\ disposed' = TRUE
    /\ colorCache' = <<>>
    /\ UNCHANGED <<tainted, calls, microtasks, outsideExtractor>>

\* a caller of the extractor: any image, any options, at any time; the
\* calls are numbered in the order they are made
Call(c) ==
    /\ \A d \in 1..(c - 1) : calls[d].pc # "idle"
    /\ \E img \in Images, k \in Counts, uc \in BOOLEAN :
          ExtractStart(c, img, k, uc)

InitExtractor ==
    /\ colorCache = <<>>
    /\ tainted = FALSE
    /\ disposed = FALSE
    /\ calls = [c \in 1..MaxCalls |-> IdleCall]
    /\ microtasks = <<>>

(***************************************************************************)
(* getImageMood: the averages of brightness and saturation against fixed   *)
(* thresholds (per mille here).  For an empty palette the averages are NaN *)
(* in the code, every comparison is false and the mood is 'neutral'.       *)
(***************************************************************************)
RECURSIVE sumField(_, _)
sumField(colors, f) ==
    IF colors = <<>> THEN 0 ELSE Head(colors)[f] + sumField(Tail(colors), f)

getImageMood(colors) ==
    IF colors = <<>> THEN "neutral"
    ELSE LET n == Len(colors)
             sumB == sumField(colors, "brightness")
             sumS == sumField(colors, "saturation")
         IN  CASE sumB > 700 * n /\ sumS < 300 * n -> "bright and airy"
               [] sumB < 300 * n /\ sumS < 300 * n -> "dark and moody"
               [] sumS > 700 * n -> "vibrant and energetic"
               [] sumB > 500 * n /\ sumS > 400 * n -> "warm and inviting"
               [] sumB < 500 * n /\ sumS > 400 * n -> "deep and mysterious"
               [] OTHER -> "neutral"

(***************************************************************************)
(* CosmicGallery.waitForImage.  The promise of one image: its state, the   *)
(* timeout, the two { once: true } listeners, and how many of the events   *)
(* load, error and timeout its handlers have seen.                         *)
(***************************************************************************)
NoWait ==
    [state |-> "none", timer |-> FALSE, onLoad |-> FALSE, onError |-> FALSE,
     events |-> 0]

\* a promise settles once: resolve() on a settled promise does nothing
resolve(w) == IF w.state = "pending" THEN [w EXCEPT !.state = "resolved"] ELSE w

waitForImage(complete) ==
    IF complete
    THEN [NoWait EXCEPT !.state = "resolved"]
    ELSE [NoWait EXCEPT !.state = "pending", !.timer = TRUE, !.onLoad = TRUE,
                        !.onError = TRUE]

handleLoad(w) ==
    resolve([w EXCEPT !.timer = FALSE, !.onLoad = FALSE,
                      !.events = w.events + 1])

\* an error handler that rejects the promise
handleErrorRejects(w) ==
    [w EXCEPT !.state = "rejected", !.timer = FALSE, !.onError = FALSE,
              !.events = w.events + 1]

handleError(w) ==
    resolve([w EXCEPT !.timer = FALSE, !.onError = FALSE,
                      !.events = w.events + 1])

handleTimeout(w) ==
    resolve([w EXCEPT !.timer = FALSE, !.events = w.events + 1])

(***************************************************************************)
(* The gallery page: its <img> elements in document order.  Image i is     *)
(* the i-th name of the list below, taken cyclically.                      *)
(***************************************************************************)
galleryNames == <<"imgRemote", "imgLocal">>

galleryImage(i) == galleryNames[((i - 1) % Len(galleryNames)) + 1]

GalleryIds == 1..NumImages

\* the elements init() and fallbackToSimpleGallery() write to; "css" is the
\* display the stylesheet gives
InitialDom ==
    [loadingActive |-> FALSE, galaxy |-> "css", navModes |-> "css",
     gallery |-> "css", errorShown |-> FALSE]

showLoading(d, show) == [d EXCEPT !.loadingActive = show]

showError(d) == [d EXCEPT !.errorShown = TRUE]

\* a fallback that leaves the loading indicator as it is
fallbackKeepsLoading(d) ==
    [d EXCEPT !.galaxy = "none", !.navModes = "none", !.gallery = "grid"]

fallbackToSimpleGallery(d) ==
    [showLoading(d, FALSE) EXCEPT !.galaxy = "none", !.navModes = "none",
                                  !.gallery = "grid"]

\* the catch block of init()
initCatch(d) == fallbackToSimpleGallery(showError(d))

(***************************************************************************)
(* CosmicGallery.init.  Each action is the code between two awaits.  A     *)
(* step of init() can throw (no WebGL, a missing library or element): that *)
(* is the environment's choice.                                            *)
(***************************************************************************)
galleryRest == <<startTimer, imgState, wait, imgDone, images>>

\* showLoading(true); initializeModules() runs up to its end or throws
InitModules ==
    /\ initPc = "new"
    /\ dom' = showLoading(dom, TRUE)
    /\ \E ok \in BOOLEAN :
          IF ok
          THEN initPc' = "modulesReady" /\ threw' = threw
          ELSE initPc' = "caught" /\ threw' = "modules"
    /\ UNCHANGED <<initialized, galleryRest, outsideGallery>>

\* the catch block, reached through a rejected await
InitCatch ==
    /\ initPc = "caught"
    /\ dom' = initCatch(dom)
    /\ initPc' = "fallback"
    /\ UNCHANGED <<initialized, threw, galleryRest, outsideGallery>>

\* loadGalleryImages up to Promise.all: every image's loader runs up to
\* `await this.waitForImage(img)`; which images are complete (loaded or
\* broken) by then is the environment's choice
LoadGalleryImages ==
    /\ initPc = "modulesReady"
    /\ \E st \in [GalleryIds -> {"available", "broken", "unavailable"}] :
          /\ imgState' = st
          /\ wait' = [i \in GalleryIds |-> waitForImage(st[i] # "unavailable")]
    /\ initPc' = "loading"
    /\ UNCHANGED <<initialized, threw, dom, startTimer, imgDone, images,
                   outsideGallery>>

\* the load event of image i
ImageLoad(i) ==
    /\ imgState[i] = "unavailable"
    /\ wait[i].state # "none"
    /\ imgState' = [imgState EXCEPT ![i] = "available"]
    /\ wait' = [wait EXCEPT ![i] = IF wait[i].onLoad THEN handleLoad(wait[i])
                                   ELSE wait[i]]
    /\ UNCHANGED <<initPc, initialized, threw, dom, startTimer, imgDone,
                   images, outsideGallery>>

\* the error event of image i
ImageError(i) ==
    /\ imgState[i] = "unavailable"
    /\ wait[i].state # "none"
    /\ imgState' = [imgState EXCEPT ![i] = "broken"]
    /\ wait' = [wait EXCEPT ![i] = IF wait[i].onError THEN handleError(wait[i])
                                   ELSE wait[i]]
    /\ UNCHANGED <<initPc, initialized, threw, dom, startTimer, imgDone,
                   images, outsideGallery>>

\* the timeout of waitForImage fires
WaitTimeout(i) ==
    /\ wait[i].timer
    /\ wait' = [wait EXCEPT ![i] = handleTimeout(wait[i])]
    /\ UNCHANGED <<initPc, initialized, threw, dom, startTimer, imgState,
                   imgDone, images, outsideGallery>>

\* the loader of image i after `await this.waitForImage(img)`: the call of
\* extractColors(img), with the default options
LoaderExtract(i) ==
    /\ initPc = "loading"
    /\ wait[i].state = "resolved"
    /\ ExtractStart(i, <<galleryImage(i), imgState[i]>>, defaultCount, TRUE)
    /\ UNCHANGED galleryVars

\* a suspended extractColors call resumes
LoaderResume ==
    /\ ExtractResume
    /\ UNCHANGED galleryVars

\* the loader of image i after `await ...extractColors(img)`: the record is
\* pushed, or the catch block logs the error and returns null
LoaderStore(i) ==
    /\ initPc = "loading"
    /\ ~imgDone[i]
    /\ calls[i].pc \in {"resolved", "rejected"}
    /\ imgDone' = [imgDone EXCEPT ![i] = TRUE]
    /\ images' =
          IF calls[i].pc = "resolved"
          THEN Append(images,
                      [index |-> i - 1, src |-> src(calls[i].image),
                       colors |-> calls[i].result.colors,
                       mood |-> getImageMood(calls[i].result.colors)])
          ELSE images
    /\ UNCHANGED <<initPc, initialized, threw, dom, startTimer, imgState,
                   wait, outsideGallery>>

\* loadGalleryImages after Promise.all: galaxy.loadImages, then the
\* original gallery is hidden
LoadGalleryTail ==
    /\ initPc = "loading"
    /\ \A i \in GalleryIds : imgDone[i]
    /\ \E ok \in BOOLEAN :
          IF ok
          THEN /\ dom' = [dom EXCEPT !.gallery = "none"]
               /\ initPc' = "imagesReady"
               /\ threw' = threw
          ELSE /\ dom' = dom
               /\ initPc' = "caught"
               /\ threw' = "images"
    /\ UNCHANGED <<initialized, galleryRest, outsideGallery>>

\* init() after `await this.loadGalleryImages()`: setupEventListeners,
\* startExperience, initialized = true; a throw goes to the catch block in
\* the same step
InitFinish ==
    /\ initPc = "imagesReady"
    /\ \E outcome \in {"ok", "listeners", "start"} :
          IF outcome = "ok"
          THEN /\ startTimer' = TRUE
               /\ initialized' = TRUE
               /\ initPc' = "initialized"
               /\ UNCHANGED <<threw, dom>>
          ELSE /\ threw' = outcome
               /\ dom' = initCatch(dom)
               /\ initPc' = "fallback"
               /\ UNCHANGED <<startTimer, initialized>>
    /\ UNCHANGED <<imgState, wait, imgDone, images, outsideGallery>>

\* the timer of startExperience: the loading screen is hidden
StartExperience ==
    /\ startTimer
    /\ startTimer' = FALSE
    /\ dom' = showLoading(dom, FALSE)
    /\ UNCHANGED <<initPc, initialized, threw, imgState, wait, imgDone,
                   images, outsideGallery>>

InitGalleryVars ==
    /\ initPc = "new"
    /\ initialized = FALSE
    /\ threw = "none"
    /\ dom = InitialDom
    /\ startTimer = FALSE
    /\ imgState = [i \in GalleryIds |-> "unavailable"]
    /\ wait = [i \in GalleryIds |-> NoWait]
    /\ imgDone = [i \in GalleryIds |-> FALSE]
    /\ images = <<>>

(***************************************************************************)
(* ColorExtractor.medianCut and the functions it calls.  A histogram is    *)
(* the array Object.values returns: the buckets in the order their keys    *)
(* were first inserted (the keys are strings such as "16,32,0", never      *)
(* array indices).  A box is an array of buckets.  Array.prototype.sort is *)
(* stable.                                                                 *)
(***************************************************************************)
\* 0 / 0 and Math.round of it: not a number
NaN == 0 - 1

Reverse(s) == [i \in 1..Len(s) |-> s[Len(s) + 1 - i]]

bucketKey(pixel) ==
    <<(pixel[1] \div colorBuckets) * colorBuckets,
      (pixel[2] \div colorBuckets) * colorBuckets,
      (pixel[3] \div colorBuckets) * colorBuckets>>

\* the body of the forEach of getHistogram
addPixel(histogram, pixel) ==
    IF \E i \in DOMAIN histogram : histogram[i].key = bucketKey(pixel)
    THEN LET i == CHOOSE j \in DOMAIN histogram :
                      histogram[j].key = bucketKey(pixel)
         IN  [histogram EXCEPT ![i].count = @ + 1,
                               ![i].pixels = Append(@, pixel)]
    ELSE Append(histogram,
                [key |-> bucketKey(pixel), color |-> pixel, count |-> 1,
                 pixels |-> <<pixel>>])

RECURSIVE histogramFrom(_, _)
histogramFrom(histogram, pixelArray) ==
    IF pixelArray = <<>> THEN histogram
    ELSE histogramFrom(addPixel(histogram, Head(pixelArray)), Tail(pixelArray))

\* a bucket order that depends on what ran before
getHistogramUnordered(pixelArray) ==
    IF Len(mcResults) % 2 = 1
    THEN Reverse(histogramFrom(<<>>, pixelArray))
    ELSE histogramFrom(<<>>, pixelArray)

getHistogram(pixelArray) == histogramFrom(<<>>, pixelArray)

\* histogram.sort((a, b) => b.count - a.count)
RECURSIVE insertByCount(_, _)
insertByCount(sorted, item) ==
    IF sorted = <<>> THEN <<item>>
    ELSE IF Head(sorted).count >= item.count
         THEN <<Head(sorted)>> \o insertByCount(Tail(sorted), item)
         ELSE <<item>> \o sorted

RECURSIVE sortByCountFrom(_, _)
sortByCountFrom(sorted, rest) ==
    IF rest = <<>> THEN sorted
    ELSE sortByCountFrom(insertByCount(sorted, Head(rest)), Tail(rest))

sortByCount(histogram) == sortByCountFrom(<<>>, histogram)

\* allPixels.sort((a, b) => a[sortDimension] - b[sortDimension]); the
\* dimension is 0, 1 or 2 as in the code
RECURSIVE insertByDimension(_, _, _)
insertByDimension(sorted, pixel, d) ==
    IF sorted = <<>> THEN <<pixel>>
    ELSE IF Head(sorted)[d + 1] <= pixel[d + 1]
         THEN <<Head(sorted)>> \o insertByDimension(Tail(sorted), pixel, d)
         ELSE <<pixel>> \o sorted

RECURSIVE sortByDimensionFrom(_, _, _)
sortByDimensionFrom(sorted, rest, d) ==
    IF rest = <<>> THEN sorted
    ELSE sortByDimensionFrom(insertByDimension(sorted, Head(rest), d),
                             Tail(rest), d)

sortByDimension(allPixels, d) == sortByDimensionFrom(<<>>, allPixels, d)

\* the pixels of a box, bucket by bucket
RECURSIVE boxPixels(_)
boxPixels(box) ==
    IF box = <<>> THEN <<>> ELSE Head(box).pixels \o boxPixels(Tail(box))

\* max - min of one channel, with min starting at 255 and max at 0
channelRange(allPixels, d) ==
    LET vals == {allPixels[i][d + 1] : i \in DOMAIN allPixels}
        max == CHOOSE m \in vals \cup {0} : \A v \in vals \cup {0} : v <= m
        min == CHOOSE m \in vals \cup {255} : \A v \in vals \cup {255} : m <= v
    IN  max - min

getColorVolume(box) ==
    IF box = <<>> THEN 0
    ELSE LET allPixels == boxPixels(box)
         IN  channelRange(allPixels, 0) * channelRange(allPixels, 1)
                * channelRange(allPixels, 2)

sortDimension(allPixels) ==
    LET rRange == channelRange(allPixels, 0)
        gRange == channelRange(allPixels, 1)
        bRange == channelRange(allPixels, 2)
    IN  IF gRange > rRange /\ gRange > bRange THEN 1
        ELSE IF bRange > rRange /\ bRange > gRange THEN 2
        ELSE 0

splitBox(box) ==
    IF box = <<>> THEN << <<>>, <<>> >>
    ELSE LET allPixels == boxPixels(box)
             sorted == sortByDimension(allPixels, sortDimension(allPixels))
             medianIndex == Len(sorted) \div 2
         IN  <<getHistogram(SubSeq(sorted, 1, medianIndex)),
               getHistogram(SubSeq(sorted, medianIndex + 1, Len(sorted)))>>

\* Math.round(total / count) for total >= 0
round(total, count) ==
    IF count = 0 THEN NaN ELSE (2 * total + count) \div (2 * count)

RECURSIVE channelTotal(_, _)
channelTotal(allPixels, d) ==
    IF allPixels = <<>> THEN 0
    ELSE Head(allPixels)[d + 1] + channelTotal(Tail(allPixels), d)

getAverageColor(box) ==
    LET allPixels == boxPixels(box)
        count == Len(allPixels)
    IN  <<round(channelTotal(allPixels, 0), count),
          round(channelTotal(allPixels, 1), count),
          round(channelTotal(allPixels, 2), count)>>

\* the search of the while loop: the first box of the largest volume
largestIndex(bs) ==
    CHOOSE i \in DOMAIN bs :
        /\ \A j \in DOMAIN bs : getColorVolume(bs[j]) <= getColorVolume(bs[i])
        /\ \A j \in 1..(i - 1) : getColorVolume(bs[j]) < getColorVolume(bs[i])

\* boxes.splice(largestIndex, 1, box1, box2)
splice(bs, i, box1, box2) ==
    SubSeq(bs, 1, i - 1) \o <<box1, box2>> \o SubSeq(bs, i + 1, Len(bs))

\* the pixel samples medianCut is run on
sampleVisible ==
    << <<10, 20, 30>>, <<200, 20, 30>>, <<10, 220, 30>>, <<10, 20, 230>>,
       <<200, 220, 30>>, <<200, 220, 230>> >>

sampleLine ==
    << <<0, 0, 0>>, <<40, 0, 0>>, <<80, 0, 0>>, <<120, 0, 0>>, <<160, 0, 0>>,
       <<200, 0, 0>> >>

sampleShared ==
    << <<10, 20, 30>>, <<200, 20, 30>>, <<12, 22, 28>>, <<200, 220, 30>>,
       <<201, 21, 31>>, <<202, 22, 33>>, <<90, 90, 90>> >>

PixelSamples ==
    {sampleVisible, Reverse(sampleVisible), sampleLine, sampleShared,
     <<>>, << <<99, 102, 241>> >>}

\* medianCut up to the while loop
McStart ==
    /\ mcPc = "idle"
    /\ LET histogram == getHistogram(mcPixels)
       IN  IF Len(histogram) <= mcCount
           THEN /\ mcResults' =
                      Append(mcResults,
                             [pixelArray |-> mcPixels, colorCount |-> mcCount,
                              palette |-> [i \in DOMAIN histogram |->
                                              histogram[i].color],
                              splits |-> 0])
                /\ mcPc' = "done"
                /\ boxes' = <<>>
           ELSE /\ boxes' = <<sortByCount(histogram)>>
                /\ mcPc' = "loop"
                /\ UNCHANGED mcResults
    /\ UNCHANGED <<mcPixels, mcCount, outsideQuant>>

\* one iteration of the while loop
McSplit ==
    /\ mcPc = "loop"
    /\ Len(boxes) < mcCount
    /\ LET i == largestIndex(boxes)
           halves == splitBox(boxes[i])
       IN  boxes' = splice(boxes, i, halves[1], halves[2])
    /\ UNCHANGED <<mcPixels, mcCount, mcPc, mcResults, outsideQuant>>

\* the loop ends: boxes.map(box => this.getAverageColor(box))
McFinish ==
    /\ mcPc = "loop"
    /\ Len(boxes) >= mcCount
    /\ mcResults' =
          Append(mcResults,
                 [pixelArray |-> mcPixels, colorCount |-> mcCount,
                  palette |-> [i \in DOMAIN boxes |-> getAverageColor(boxes[i])],
                  splits |-> Len(boxes) - 1])
    /\ mcPc' = "done"
    /\ boxes' = <<>>
    /\ UNCHANGED <<mcPixels, mcCount, outsideQuant>>

\* the next call of medianCut on the same extractor
McAgain ==
    /\ mcPc = "done"
    /\ Len(mcResults) < MaxRuns
    /\ mcPixels' \in PixelSamples
    /\ mcCount' \in Counts
    /\ mcPc' = "idle"
    /\ UNCHANGED <<boxes, mcResults, outsideQuant>>

ParkedQuant ==
    /\ mcPixels = <<>>
    /\ mcCount = defaultCount
    /\ mcPc = "idle"
    /\ boxes = <<>>
    /\ mcResults = <<>>

(***************************************************************************)
(* The lightbox.  Three controllers open one: SimpleGallery ("simple"),    *)
(* GalleryEnhanced ("enhanced") and the older Gallery ("old"); a page runs *)
(* one of them.  A lightbox element is                                     *)
(*   attached  it is in the document                                       *)
(*   active    its class list contains 'active'                            *)
(*   frame     the requestAnimationFrame callback adding 'active' is due   *)
(*   timer     a 300 ms timer calling lightbox.remove() is pending (remove *)
(*             on a detached element does nothing, so one flag stands for  *)
(*             any number of timers)                                       *)
(*   esc       its escHandler is registered on the document                *)
(* Every gallery item has an <img>.  A pointer reaches a gallery item only *)
(* while no attached lightbox is active or about to be.                    *)
(***************************************************************************)
Variants == {"simple", "enhanced", "old"}

attachedSet(lbs) == {l \in DOMAIN lbs : lbs[l].attached}

\* SimpleGallery.openLightbox and Gallery.openLightbox
openLightbox(lbs) ==
    IF lbVariant = "old"
    THEN Append(lbs, [attached |-> TRUE, active |-> TRUE, frame |-> FALSE,
                      timer |-> FALSE, esc |-> FALSE])
    ELSE Append(lbs, [attached |-> TRUE, active |-> FALSE, frame |-> TRUE,
                      timer |-> FALSE, esc |-> TRUE])

\* GalleryEnhanced.viewFullscreen
viewFullscreen(lbs) ==
    Append(lbs, [attached |-> TRUE, active |-> FALSE, frame |-> TRUE,
                 timer |-> FALSE, esc |-> TRUE])

\* the closure `close` of one lightbox
close(lbs, l) == [lbs EXCEPT ![l].active = FALSE, ![l].timer = TRUE]

\* Gallery.closeLightbox: document.querySelector('.lightbox') is the first
\* lightbox in the document
closeLightbox(lbs) ==
    IF attachedSet(lbs) = {} THEN lbs
    ELSE close(lbs, CHOOSE l \in attachedSet(lbs) :
                        \A m \in attachedSet(lbs) : l <= m)

\* the escHandler of one lightbox, for the key Escape
escHandler(lbs, l) == [close(lbs, l) EXCEPT ![l].esc = FALSE]

RECURSIVE escHandlers(_, _)
escHandlers(lbs, l) ==
    IF l > Len(lbs) THEN lbs
    ELSE escHandlers(IF lbs[l].esc THEN escHandler(lbs, l) ELSE lbs, l + 1)

\* a click on a gallery item
ItemClick ==
    /\ Len(lightboxes) < MaxLightboxes
    /\ \A l \in attachedSet(lightboxes) :
          ~lightboxes[l].active /\ ~lightboxes[l].frame
    /\ lightboxes' = IF lbVariant = "enhanced" THEN viewFullscreen(lightboxes)
                     ELSE openLightbox(lightboxes)
    /\ UNCHANGED <<lbVariant, itemFocused, outsideLightbox>>

\* the animation frame after a lightbox was appended
AnimationFrame(l) ==
    /\ l \in DOMAIN lightboxes
    /\ lightboxes[l].frame
    /\ lightboxes' = [lightboxes EXCEPT ![l].frame = FALSE, ![l].active = TRUE]
    /\ UNCHANGED <<lbVariant, itemFocused, outsideLightbox>>

\* a click on the close button or on the backdrop of a shown lightbox
CloseClick(l) ==
    /\ l \in DOMAIN lightboxes
    /\ lightboxes[l].attached
    /\ lightboxes[l].active
    /\ lightboxes' = IF lbVariant = "old" THEN closeLightbox(lightboxes)
                     ELSE close(lightboxes, l)
    /\ UNCHANGED <<lbVariant, itemFocused, outsideLightbox>>

\* the key Escape
KeyEscape ==
    /\ lightboxes' = IF lbVariant = "old" THEN closeLightbox(lightboxes)
                     ELSE escHandlers(lightboxes, 1)
    /\ lightboxes' # lightboxes
    /\ UNCHANGED <<lbVariant, itemFocused, outsideLightbox>>

\* an arrow key: GalleryEnhanced.focusItem gives a gallery item the focus
KeyArrow ==
    /\ lbVariant = "enhanced"
    /\ ~itemFocused
    /\ itemFocused' = TRUE
    /\ UNCHANGED <<lbVariant, lightboxes, outsideLightbox>>

\* the key Enter with a gallery item focused
KeyEnter ==
    /\ lbVariant = "enhanced"
    /\ itemFocused
    /\ Len(lightboxes) < MaxLightboxes
    /\ lightboxes' = viewFullscreen(lightboxes)
    /\ UNCHANGED <<lbVariant, itemFocused, outsideLightbox>>

\* a 300 ms timer: lightbox.remove()
RemoveTimer(l) ==
    /\ l \in DOMAIN lightboxes
    /\ lightboxes[l].timer
    /\ lightboxes' = [lightboxes EXCEPT ![l].timer = FALSE,
                                        ![l].attached = FALSE]
    /\ UNCHANGED <<lbVariant, itemFocused, outsideLightbox>>

ParkedLightbox ==
    /\ lbVariant = "simple"
    /\ lightboxes = <<>>
    /\ itemFocused = FALSE

(***************************************************************************)
(* Lazy loading.  Two scripts observe the gallery images: the page script  *)
(* ("page": rootMargin '50px 0px', threshold 0.01) and the plain-gallery   *)
(* fallback ("plain": no options).  An image is "inside" the viewport,     *)
(* in the "margin" (outside the viewport, within 50px above or below it)   *)
(* or "far".  The observer samples its targets when the page is rendered,  *)
(* queues an entry for a target whose isIntersecting changed (the first    *)
(* sample always queues one) and later hands the queued entries to the     *)
(* callback.                                                               *)
(***************************************************************************)
LazyVariants == {"page", "plain"}

Positions == {"inside", "margin", "far"}

LazyIds == 1..NumLazy

near(p) == p \in {"inside", "margin"}

\* the observer's verdict for a position, by its rootMargin
isIntersecting(p) ==
    IF lazyVariant = "page" THEN near(p) ELSE p = "inside"

\* lastIntersecting holds "none" before the first sample
verdict(p) == IF isIntersecting(p) THEN "true" ELSE "false"

\* a callback that marks and unobserves whatever it is called for
imageObserverEager(entry, img) == [loaded |-> TRUE, observed |-> FALSE]

\* the callback for one entry; img is the class and observation state of
\* entry.target
imageObserver(entry, img) ==
    IF entry.isIntersecting
    THEN [loaded |-> TRUE, observed |-> FALSE]
    ELSE img

\* entries.forEach(entry => ...), on the state of all images
RECURSIVE forEachEntry(_, _)
forEachEntry(entries, imgs) ==
    IF entries = <<>> THEN imgs
    ELSE LET entry == Head(entries)
         IN  forEachEntry(Tail(entries),
                          [imgs EXCEPT ![entry.target] =
                              imageObserver(entry, imgs[entry.target])])

\* the user scrolls or the layout changes: image i moves
Scroll(i) ==
    /\ \E p \in Positions \ {position[i]} :
          /\ position' = [position EXCEPT ![i] = p]
          /\ everNear' = IF near(p) THEN everNear \cup {i} ELSE everNear
    /\ UNCHANGED <<lazyVariant, observed, lastIntersecting, queued, loaded,
                   reported, notified, outsideLazy>>

\* the observer samples target i
ObserverSample(i) ==
    /\ observed[i]
    /\ Len(queued) <= NumLazy
    /\ lastIntersecting[i] # verdict(position[i])
    /\ lastIntersecting' = [lastIntersecting EXCEPT ![i] = verdict(position[i])]
    /\ queued' = Append(queued, [target |-> i,
                                 isIntersecting |-> isIntersecting(position[i])])
    /\ UNCHANGED <<lazyVariant, position, observed, loaded, reported,
                   notified, everNear, outsideLazy>>

\* the observer hands the queued entries to the callback
ObserverCallback ==
    /\ queued # <<>>
    /\ LET imgs == forEachEntry(queued,
                      [i \in LazyIds |->
                          [loaded |-> loaded[i], observed |-> observed[i]]])
       IN  /\ loaded' = [i \in LazyIds |-> imgs[i].loaded]
           /\ observed' = [i \in LazyIds |-> imgs[i].observed]
    /\ reported' = reported \cup
          {queued[k].target : k \in {j \in DOMAIN queued : queued[j].isIntersecting}}
    /\ notified' = notified \cup {queued[k].target : k \in DOMAIN queued}
    /\ queued' = <<>>
    /\ UNCHANGED <<lazyVariant, position, lastIntersecting, everNear,
                   outsideLazy>>

ParkedLazy ==
    /\ lazyVariant = "page"
    /\ position = [i \in LazyIds |-> "far"]
    /\ observed = [i \in LazyIds |-> TRUE]
    /\ lastIntersecting = [i \in LazyIds |-> "none"]
    /\ queued = <<>>
    /\ loaded = [i \in LazyIds |-> FALSE]
    /\ reported = {}
    /\ notified = {}
    /\ everNear = {}


(***************************************************************************)
(* The ephemeral effects: ParticleSystem.createExplosion and createTrail,  *)
(* LightingEngine.pulseLight and AudioEngine.createSpatialSound.  Time is  *)
(* counted per effect, in steps of 500 ms since its creation, and stops at *)
(* the effect's duration.  An effect is                                    *)
(*   kind      "explosion", "trail", "pulse" or "sound"                    *)
(*   live      it is in the scene / its audio nodes are not disposed       *)
(*   elapsed   the time since its creation                                 *)
(*   frame     an animation-frame callback of it is requested (for the     *)
(*             pulse: its tween is on the ticker of the animation library) *)
(*   timer     its setTimeout is pending                                   *)
(*   interval  its setInterval is active                                   *)
(*   opacity   material.opacity, as the time left                          *)
(* The callers pass no duration, so the defaults apply.                    *)
(***************************************************************************)
explosionDuration == 1000

trailDuration == 2000

pulseDuration == 1000

soundCleanup == 2000

EffectKinds == {"explosion", "trail", "pulse", "sound"}

duration(kind) ==
    (CASE kind = "explosion" -> explosionDuration
       [] kind = "trail" -> trailDuration
       [] kind = "pulse" -> pulseDuration
       [] OTHER -> soundCleanup) \div 500

\* an animate that goes on requesting frames when the time is over
animateForever(fx) == [fx EXCEPT !.opacity = duration(fx.kind) - fx.elapsed]

\* the closure animate of createExplosion, and the ticker step of the
\* intensity tween of pulseLight with its onComplete
animate(fx) ==
    IF fx.elapsed < duration(fx.kind)
    THEN [fx EXCEPT !.opacity = duration(fx.kind) - fx.elapsed]
    ELSE [fx EXCEPT !.opacity = 0, !.frame = FALSE, !.live = FALSE]

\* what the four functions leave behind when they return
createEffect(kind) ==
    LET fx == [kind |-> kind, live |-> TRUE, elapsed |-> 0, frame |-> FALSE,
               timer |-> FALSE, interval |-> FALSE,
               opacity |-> duration(kind)]
    IN  CASE kind = "explosion" -> animate([fx EXCEPT !.frame = TRUE])
          [] kind = "pulse" -> [fx EXCEPT !.frame = TRUE]
          [] kind = "trail" -> [fx EXCEPT !.timer = TRUE, !.interval = TRUE]
          [] OTHER -> [fx EXCEPT !.timer = TRUE]

\* a click, a hover or a navigation step creates an effect
CreateEffect(kind) ==
    /\ Len(effects) < MaxEffects
    /\ effects' = Append(effects, createEffect(kind))
    /\ UNCHANGED outsideEffects

\* 500 ms pass
EffectTick ==
    /\ \E e \in DOMAIN effects :
          effects[e].live /\ effects[e].elapsed < duration(effects[e].kind)
    /\ effects' = [e \in DOMAIN effects |->
                      IF effects[e].live
                         /\ effects[e].elapsed < duration(effects[e].kind)
                      THEN [effects[e] EXCEPT !.elapsed = @ + 1]
                      ELSE effects[e]]
    /\ UNCHANGED outsideEffects

\* an animation frame runs the callback of effect e
EffectFrame(e) ==
    /\ e \in DOMAIN effects
    /\ effects[e].frame
    /\ effects' = [effects EXCEPT ![e] = animate(effects[e])]
    /\ UNCHANGED outsideEffects

\* the setTimeout callback of a trail or of a spatial sound
EffectTimer(e) ==
    /\ e \in DOMAIN effects
    /\ effects[e].timer
    /\ effects[e].elapsed = duration(effects[e].kind)
    /\ effects' = [effects EXCEPT ![e].timer = FALSE, ![e].interval = FALSE,
                                  ![e].live = FALSE]
    /\ UNCHANGED outsideEffects

ParkedEffects == effects = <<>>

(***************************************************************************)
(* Keyboard, pointer and timer input of the three gallery scripts.         *)
(*                                                                         *)
(* "cosmic" is CosmicGallery (js/gallery.js): its listeners, navigateImages,*)
(* autoplay and dispose.  "enhanced" is setupKeyboardNavigation of         *)
(* js/effects/ImageMorpher.js.  "simple" is src/js/gallery.js: the         *)
(* debounced handleKeyNav and the throttled tiltEffect and handleScroll.   *)
(*                                                                         *)
(* Time is counted in frames of 16 ms, the shortest delay of the page: 16  *)
(* ms is one frame and 100 ms is six.  A timer that is due runs before     *)
(* time goes on; an event of the same frame runs before it or after it.    *)
(***************************************************************************)
debounceWait == 100

tiltLimit == 16

scrollLimit == 100

ticks(ms) == ms \div 16

CtlVariants == {"cosmic", "enhanced", "simple"}

\* e.key of the keys pressed: the arrows and the space bar
Keys == {"ArrowLeft", "ArrowRight", " "}

\* this.currentImageIndex = (index + direction + length) % length
navigateImages(index, direction, length) ==
    IF length = 0 THEN NaN ELSE (index + direction + length) % length

\* a mutant: the index is moved without the modulo
handleKeyNavUnwrapped(index, key, length) ==
    CASE key = "ArrowRight" -> index + 1
      [] key = "ArrowLeft"  -> index - 1
      [] OTHER -> index

\* the function handleKeyNav debounces
handleKeyNav(index, key, length) ==
    CASE key = "ArrowRight" -> IF length = 0 THEN NaN ELSE (index + 1) % length
      [] key = "ArrowLeft"  ->
            IF length = 0 THEN NaN ELSE (index - 1 + length) % length
      [] OTHER -> index

\* the switch of setupKeyboardNavigation
setupKeyboardNavigation(index, key, length) ==
    CASE key = "ArrowRight" -> IF length = 0 THEN NaN ELSE (index + 1) % length
      [] key = "ArrowLeft"  ->
            IF length = 0 THEN NaN ELSE (index - 1 + length) % length
      [] OTHER -> index

\* the shortcuts table: the handler of a key, "none" if it has none; the
\* space bar sends e.key " ", which is not the entry 'Space'
shortcuts(key) ==
    CASE key = "ArrowLeft"  -> "navigateBack"
      [] key = "ArrowRight" -> "navigateOn"
      [] key = "Space"      -> "toggleAutoplay"
      [] OTHER -> "none"

\* the listeners setupEventListeners adds: each is a new arrow function
setupEventListeners ==
    {[type |-> "mousemove",  fn |-> "arrow199"],
     [type |-> "keydown",    fn |-> "arrow252"],
     [type |-> "touchstart", fn |-> "arrow262"],
     [type |-> "touchend",   fn |-> "arrow270"],
     [type |-> "resize",     fn |-> "arrow234"]}

\* removeEventListener removes the listener of that type that is the same
\* function, and nothing if there is none
removeEventListener(listeners, type, fn) ==
    listeners \ {[type |-> type, fn |-> fn]}

hasListener(type) == \E l \in attached : l.type = type

\* a handler of the gallery ran: after dispose it is recorded
ran(name) == IF galleryDisposed THEN lateRuns \cup {name} ELSE lateRuns

\* clearTimeout(timeout): `timeout` is the timer set last
clearTimeout(ts) == IF ts = <<>> THEN ts ELSE SubSeq(ts, 1, Len(ts) - 1)

\* a mutant: the pending timer is not cleared
executedFunctionKeepsTimer(ts, key) ==
    Append(ts, [left |-> ticks(debounceWait), key |-> key])

\* executedFunction of debounce: clear the pending timer, set a new one
executedFunction(ts, key) ==
    Append(clearTimeout(ts), [left |-> ticks(debounceWait), key |-> key])

NoThrottle ==
    [inThrottle |-> FALSE, timer |-> FALSE, left |-> 0,
     sinceRun |-> 0 - 1, minGap |-> 0 - 1]

\* what a run of func adds to the record of t: sinceRun is the time since
\* the run before (-1: there was none), minGap the least such time there was
runs(t) ==
    [t EXCEPT !.sinceRun = 0,
              !.minGap = IF t.sinceRun < 0 THEN @
                         ELSE IF @ < 0 THEN t.sinceRun
                         ELSE Min2(@, t.sinceRun)]

\* a mutant: func runs on every call
throttledAlways(t, limit) ==
    [runs(t) EXCEPT !.inThrottle = TRUE, !.timer = TRUE,
                    !.left = ticks(limit)]

\* the function throttle returns
throttled(t, limit) ==
    IF ~t.inThrottle
    THEN [runs(t) EXCEPT !.inThrottle = TRUE, !.timer = TRUE,
                         !.left = ticks(limit)]
    ELSE t

Throttled == {"tiltEffect", "handleScroll"}

limitOf(f) == IF f = "tiltEffect" THEN tiltLimit ELSE scrollLimit

\* init() of CosmicGallery reaches setupEventListeners
SetupEventListeners ==
    /\ ctlVariant = "cosmic"
    /\ attached = {}
    /\ ~galleryDisposed
    /\ attached' = setupEventListeners
    /\ UNCHANGED <<ctlVariant, itemCount, currentIndex, autoplay,
                   autoplayInterval, galleryDisposed, lateRuns, timers,
                   lastKey, lastRun, throttles>>
    /\ UNCHANGED lastMove
    /\ UNCHANGED outsideInput

\* a keydown event on the document
KeyDown(key) ==
    /\ ctlVariant \in CtlVariants
    /\ CASE ctlVariant = "cosmic" ->
              /\ hasListener("keydown")
              /\ currentIndex' =
                    CASE shortcuts(key) = "navigateBack" ->
                            navigateImages(currentIndex, 0 - 1, itemCount)
                      [] shortcuts(key) = "navigateOn" ->
                            navigateImages(currentIndex, 1, itemCount)
                      [] OTHER -> currentIndex
              /\ lateRuns' = ran("keydown")
              /\ UNCHANGED <<timers, lastKey, lastRun>>
         [] ctlVariant = "enhanced" ->
              /\ currentIndex' =
                    setupKeyboardNavigation(currentIndex, key, itemCount)
              /\ UNCHANGED <<lateRuns, timers, lastKey, lastRun>>
         [] ctlVariant = "simple" ->
              /\ timers' = executedFunction(timers, key)
              /\ lastKey' = [key |-> key, since |-> 0, runs |-> 0,
                             cancelled |-> timers # <<>>]
              /\ UNCHANGED <<currentIndex, lateRuns, lastRun>>
    /\ UNCHANGED <<ctlVariant, itemCount, attached, autoplay,
                   autoplayInterval, galleryDisposed, throttles>>
    /\ lastMove' =
          IF ctlVariant # "simple" /\ key \in {"ArrowLeft", "ArrowRight"}
          THEN [from |-> currentIndex, to |-> currentIndex',
                direction |-> IF key = "ArrowRight" THEN 1 ELSE 0 - 1]
          ELSE lastMove
    /\ UNCHANGED outsideInput

\* touchend after a fast horizontal swipe: handleGesture
Swipe(deltaX) ==
    /\ ctlVariant = "cosmic"
    /\ hasListener("touchstart")
    /\ hasListener("touchend")
    /\ currentIndex' =
          IF deltaX > 0 THEN navigateImages(currentIndex, 0 - 1, itemCount)
                        ELSE navigateImages(currentIndex, 1, itemCount)
    /\ lateRuns' = ran("touchend")
    /\ UNCHANGED <<ctlVariant, itemCount, attached, autoplay,
                   autoplayInterval, galleryDisposed, timers, lastKey,
                   lastRun, throttles>>
    /\ lastMove' = [from |-> currentIndex, to |-> currentIndex',
                    direction |-> IF deltaX > 0 THEN 0 - 1 ELSE 1]
    /\ UNCHANGED outsideInput

\* toggleAutoplay()
ToggleAutoplay ==
    /\ ctlVariant = "cosmic"
    /\ ~galleryDisposed
    /\ autoplay' = ~autoplay
    /\ autoplayInterval' = IF autoplay' THEN "running"
                           ELSE IF autoplayInterval = "undefined"
                                THEN "undefined" ELSE "cleared"
    /\ UNCHANGED <<ctlVariant, itemCount, currentIndex, attached,
                   galleryDisposed, lateRuns, timers, lastKey, lastRun,
                   throttles>>
    /\ UNCHANGED lastMove
    /\ UNCHANGED outsideInput

\* the callback of the autoplay interval
AutoplayTick ==
    /\ ctlVariant = "cosmic"
    /\ autoplayInterval = "running"
    /\ currentIndex' = navigateImages(currentIndex, 1, itemCount)
    /\ lateRuns' = ran("autoplay")
    /\ UNCHANGED <<ctlVariant, itemCount, attached, autoplay,
                   autoplayInterval, galleryDisposed, timers, lastKey,
                   lastRun, throttles>>
    /\ lastMove' = [from |-> currentIndex, to |-> currentIndex',
                    direction |-> 1]
    /\ UNCHANGED outsideInput

\* a mousemove event: the listener of CosmicGallery, or tiltEffect
MouseMove ==
    /\ CASE ctlVariant = "cosmic" ->
              /\ hasListener("mousemove")
              /\ lateRuns' = ran("mousemove")
              /\ UNCHANGED throttles
         [] ctlVariant = "simple" ->
              /\ throttles' =
                    [throttles EXCEPT !["tiltEffect"] = throttled(@, tiltLimit)]
              /\ UNCHANGED lateRuns
         [] OTHER -> FALSE
    /\ UNCHANGED <<ctlVariant, itemCount, currentIndex, attached, autoplay,
                   autoplayInterval, galleryDisposed, timers, lastKey,
                   lastRun>>
    /\ UNCHANGED lastMove
    /\ UNCHANGED outsideInput

\* a resize event on the window
Resize ==
    /\ ctlVariant = "cosmic"
    /\ hasListener("resize")
    /\ lateRuns' = ran("resize")
    /\ UNCHANGED <<ctlVariant, itemCount, currentIndex, attached, autoplay,
                   autoplayInterval, galleryDisposed, timers, lastKey,
                   lastRun, throttles>>
    /\ UNCHANGED lastMove
    /\ UNCHANGED outsideInput

\* a scroll event on the window: handleScroll
ScrollEvent ==
    /\ ctlVariant = "simple"
    /\ throttles' =
          [throttles EXCEPT !["handleScroll"] = throttled(@, scrollLimit)]
    /\ UNCHANGED <<ctlVariant, itemCount, currentIndex, attached, autoplay,
                   autoplayInterval, galleryDisposed, lateRuns, timers,
                   lastKey, lastRun>>
    /\ UNCHANGED lastMove
    /\ UNCHANGED outsideInput

\* dispose() of CosmicGallery: this.onMouseMove is undefined and
\* this.onResize is the method, none of them a function that was added
GalleryDispose ==
    /\ ctlVariant = "cosmic"
    /\ ~galleryDisposed
    /\ galleryDisposed' = TRUE
    /\ autoplayInterval' =
          IF autoplayInterval = "undefined" THEN "undefined" ELSE "cleared"
    /\ attached' =
          removeEventListener(
              removeEventListener(attached, "mousemove", "undefined"),
              "resize", "onResize")
    /\ UNCHANGED <<ctlVariant, itemCount, currentIndex, autoplay, lateRuns,
                   timers, lastKey, lastRun, throttles>>
    /\ UNCHANGED lastMove
    /\ UNCHANGED outsideInput

timerDue ==
    \/ \E k \in DOMAIN timers : timers[k].left = 0
    \/ \E f \in Throttled : throttles[f].timer /\ throttles[f].left = 0

\* one frame passes
Advance ==
    /\ ctlVariant = "simple"
    /\ ~timerDue
    /\ timers' = [k \in DOMAIN timers |->
                    [timers[k] EXCEPT !.left = @ - 1]]
    /\ lastKey' =
          [lastKey EXCEPT !.since = Min2(@ + 1, ticks(debounceWait))]
    /\ throttles' =
          [f \in Throttled |->
             [throttles[f] EXCEPT
                !.left = IF throttles[f].timer THEN @ - 1 ELSE @,
                !.sinceRun = IF @ < 0 THEN @
                             ELSE Min2(@ + 1, ticks(limitOf(f)))]]
    /\ UNCHANGED <<ctlVariant, itemCount, currentIndex, attached, autoplay,
                   autoplayInterval, galleryDisposed, lateRuns, lastRun>>
    /\ UNCHANGED lastMove
    /\ UNCHANGED outsideInput

\* the timer callback `later` of debounce: clearTimeout(timeout), func(e)
DebounceLater ==
    /\ ctlVariant = "simple"
    /\ timers # <<>>
    /\ Head(timers).left = 0
    /\ timers' = clearTimeout(Tail(timers))
    /\ currentIndex' = handleKeyNav(currentIndex, Head(timers).key, itemCount)
    /\ lastRun' = [key |-> Head(timers).key, gap |-> lastKey.since,
                   last |-> lastKey.key, nth |-> lastKey.runs + 1,
                   afterBurst |-> lastKey.cancelled]
    /\ lastKey' = [lastKey EXCEPT !.runs = Min2(@ + 1, 2)]
    /\ UNCHANGED <<ctlVariant, itemCount, attached, autoplay,
                   autoplayInterval, galleryDisposed, lateRuns, throttles>>
    /\ lastMove' =
          IF Head(timers).key \in {"ArrowLeft", "ArrowRight"}
          THEN [from |-> currentIndex, to |-> currentIndex',
                direction |-> IF Head(timers).key = "ArrowRight"
                              THEN 1 ELSE 0 - 1]
          ELSE lastMove
    /\ UNCHANGED outsideInput

\* the timer callback of throttle: inThrottle = false
ThrottleRelease(f) ==
    /\ ctlVariant = "simple"
    /\ throttles[f].timer
    /\ throttles[f].left = 0
    /\ throttles' = [throttles EXCEPT ![f].inThrottle = FALSE,
                                      ![f].timer = FALSE]
    /\ UNCHANGED <<ctlVariant, itemCount, currentIndex, attached, autoplay,
                   autoplayInterval, galleryDisposed, lateRuns, timers,
                   lastKey, lastRun>>
    /\ UNCHANGED lastMove
    /\ UNCHANGED outsideInput

NoKey == [key |-> "none", since |-> ticks(debounceWait), runs |-> 0,
          cancelled |-> FALSE]

NoRun == [key |-> "none", gap |-> ticks(debounceWait), last |-> "none",
          nth |-> 1, afterBurst |-> FALSE]

InputStart(variant, length) ==
    /\ ctlVariant = variant
    /\ itemCount = length
    /\ currentIndex = 0
    /\ attached = {}
    /\ autoplay = FALSE
    /\ autoplayInterval = "undefined"
    /\ galleryDisposed = FALSE
    /\ lateRuns = {}
    /\ timers = <<>>
    /\ lastKey = NoKey
    /\ lastRun = NoRun
    /\ throttles = [f \in Throttled |-> NoThrottle]
    /\ lastMove = [from |-> 0, to |-> 0, direction |-> 0]

ParkedInput == InputStart("none", 0)

(***************************************************************************)
(* The service worker (sw.js): install, activate and fetch.                *)
(*                                                                         *)
(* A URL is the sequence of its parts: scheme, host, path and what         *)
(* follows.  startsWith compares the leading parts and includes looks for  *)
(* a part anywhere in the URL, as the string methods do.                   *)
(***************************************************************************)
CACHE_NAME == "bigbang-gallery-v3.0.0"

\* the caches an earlier version or another script of the origin left
OldCaches == {"bigbang-gallery-v2.0.0", "user-data"}

origin == <<"https:", "gallery.example">>

urlIndex == <<"https:", "gallery.example", "/index.html">>

urlNewImage == <<"https:", "gallery.example", "/images/new.png">>

urlFonts == <<"https:", "fonts.googleapis.com", "/css2?family=VT323">>

urlCdn == <<"https:", "cdnjs.cloudflare.com", "/gsap.min.js">>

urlOther == <<"https:", "images.example", "/a.png">>

urlShare ==
    <<"https:", "share.example", "/post?via=", "cdnjs.cloudflare.com">>

Urls == {urlIndex, urlNewImage, urlFonts, urlCdn, urlOther, urlShare}

urlsToCache == {urlIndex, urlFonts}

host(url) == url[2]

startsWith(url, prefix) ==
    Len(url) >= Len(prefix) /\ SubSeq(url, 1, Len(prefix)) = prefix

includes(url, part) == \E k \in DOMAIN url : url[k] = part

\* the fetch listener goes on to respondWith
intercepts(url) ==
    ~(/\ ~startsWith(url, origin)
      /\ ~includes(url, "fonts.googleapis.com")
      /\ ~includes(url, "cdnjs.cloudflare.com"))

\* caches.match(request) looks in every cache of the origin
cachesMatch(storage, url) == \E name \in DOMAIN storage : url \in storage[name]

\* caches.open(name) creates the cache when there is none
cachesOpen(storage, name) ==
    IF name \in DOMAIN storage THEN storage
    ELSE [n \in DOMAIN storage \cup {name} |->
             IF n = name THEN {} ELSE storage[n]]

cachesDelete(storage, name) ==
    [n \in DOMAIN storage \ {name} |-> storage[n]]

\* a mutant: every cache is deleted
activateDeletesAll(names) == names

\* the caches the activate listener deletes
activateDeletes(names) == {name \in names : name # CACHE_NAME}

\* the install listener: open the cache and add the assets; addAll rejects
\* when one of them cannot be fetched, and the worker is discarded
Install(ok) ==
    /\ swState = "installing"
    /\ cacheStorage' =
          IF ok THEN [cachesOpen(cacheStorage, CACHE_NAME)
                         EXCEPT ![CACHE_NAME] = @ \cup urlsToCache]
          ELSE cachesOpen(cacheStorage, CACHE_NAME)
    /\ swState' = IF ok THEN "installed" ELSE "redundant"
    /\ UNCHANGED <<deletes, claimed, requests>>
    /\ UNCHANGED cacheNames
    /\ UNCHANGED outsideWorker

\* the activate listener: caches.keys() resolves, the deletes are issued
Activate ==
    /\ swState = "installed"
    /\ swState' = "activating"
    /\ cacheNames' = DOMAIN cacheStorage
    /\ deletes' = activateDeletes(cacheNames')
    /\ UNCHANGED <<cacheStorage, claimed, requests>>
    /\ UNCHANGED outsideWorker

\* one caches.delete(cacheName) resolves
DeleteResolve(name) ==
    /\ swState = "activating"
    /\ name \in deletes
    /\ cacheStorage' = cachesDelete(cacheStorage, name)
    /\ deletes' = deletes \ {name}
    /\ UNCHANGED <<swState, claimed, requests>>
    /\ UNCHANGED cacheNames
    /\ UNCHANGED outsideWorker

\* Promise.all has resolved: self.clients.claim()
Claim ==
    /\ swState = "activating"
    /\ deletes = {}
    /\ claimed' = TRUE
    /\ swState' = "activated"
    /\ UNCHANGED <<cacheStorage, deletes, requests>>
    /\ UNCHANGED cacheNames
    /\ UNCHANGED outsideWorker

\* no response of the network yet
NoResponse == [fulfilled |-> FALSE, status |-> 0, type |-> "none"]

\* the fetch listener, up to respondWith
FetchEvent(url) ==
    /\ swState = "activated"
    /\ Len(requests) < MaxRequests
    /\ requests' = Append(requests,
          IF intercepts(url)
          THEN [url |-> url, pc |-> "match", intercepted |-> TRUE,
                matched |-> "pending", network |-> FALSE,
                response |-> "pending", fetched |-> NoResponse,
                stored |-> FALSE]
          ELSE [url |-> url, pc |-> "done", intercepted |-> FALSE,
                matched |-> "none", network |-> FALSE,
                response |-> "browser", fetched |-> NoResponse,
                stored |-> FALSE])
    /\ UNCHANGED <<cacheStorage, swState, deletes, claimed>>
    /\ UNCHANGED cacheNames
    /\ UNCHANGED outsideWorker

\* caches.match resolves: the cached response, or fetch(fetchRequest)
MatchResolve(r) ==
    /\ r \in DOMAIN requests
    /\ requests[r].pc = "match"
    /\ requests' =
          IF cachesMatch(cacheStorage, requests[r].url)
          THEN [requests EXCEPT ![r].pc = "done", ![r].matched = "hit",
                                ![r].response = "cached"]
          ELSE [requests EXCEPT ![r].pc = "fetch", ![r].matched = "miss",
                                ![r].network = TRUE]
    /\ UNCHANGED <<cacheStorage, swState, deletes, claimed>>
    /\ UNCHANGED cacheNames
    /\ UNCHANGED outsideWorker

\* request.destination of the requests above
destination(url) ==
    CASE url \in {urlNewImage, urlOther} -> "image"
      [] url = urlFonts -> "style"
      [] url = urlCdn -> "script"
      [] OTHER -> "document"

\* how fetch(fetchRequest) can settle: rejected, or fulfilled with a response
\* that is basic for the own origin and cors or opaque for another
Rejected == [fulfilled |-> FALSE, status |-> 0, type |-> "error"]

NetworkOutcomes(url) ==
    {Rejected}
    \cup (IF startsWith(url, origin)
          THEN {[fulfilled |-> TRUE, status |-> st, type |-> "basic"] :
                    st \in {200, 404}}
          ELSE {[fulfilled |-> TRUE, status |-> st, type |-> "cors"] :
                    st \in {200, 404}}
               \cup {[fulfilled |-> TRUE, status |-> 0, type |-> "opaque"]})

AllOutcomes == UNION {NetworkOutcomes(url) : url \in Urls}

\* a mutant: the type of the response is not looked at
validResponseAnyType(response) == response.status = 200

\* the check of the fetch listener, negated: the response goes to the cache
validResponse(response) ==
    ~(response.status # 200 \/ response.type # "basic")

\* the catch of the fetch listener: the SVG for an image, else nothing
offlineFallback(url) ==
    IF destination(url) = "image" THEN "fallback" ELSE "undefined"

\* fetch settles: a valid response is cloned for the cache and returned;
\* another response is returned as it is; a rejection goes to the catch
NetworkResolve(r, outcome) ==
    /\ r \in DOMAIN requests
    /\ requests[r].pc = "fetch"
    /\ outcome \in NetworkOutcomes(requests[r].url)
    /\ requests' =
          CASE ~outcome.fulfilled ->
                 [requests EXCEPT ![r].pc = "done", ![r].fetched = outcome,
                     ![r].response = offlineFallback(requests[r].url)]
            [] outcome.fulfilled /\ validResponse(outcome) ->
                 [requests EXCEPT ![r].pc = "put", ![r].fetched = outcome,
                                  ![r].response = "network"]
            [] OTHER ->
                 [requests EXCEPT ![r].pc = "done", ![r].fetched = outcome,
                                  ![r].response = "network"]
    /\ UNCHANGED <<cacheStorage, swState, deletes, claimed>>
    /\ UNCHANGED cacheNames
    /\ UNCHANGED outsideWorker

\* caches.open(CACHE_NAME).then(cache => cache.put(...))
CachePut(r) ==
    /\ r \in DOMAIN requests
    /\ requests[r].pc = "put"
    /\ cacheStorage' =
          [cachesOpen(cacheStorage, CACHE_NAME)
              EXCEPT ![CACHE_NAME] = @ \cup {requests[r].url}]
    /\ requests' = [requests EXCEPT ![r].pc = "done", ![r].stored = TRUE]
    /\ UNCHANGED <<swState, deletes, claimed>>
    /\ UNCHANGED cacheNames
    /\ UNCHANGED outsideWorker

WorkerStart(storage) ==
    /\ cacheStorage = storage
    /\ swState = "installing"
    /\ cacheNames = {}
    /\ deletes = {}
    /\ claimed = FALSE
    /\ requests = <<>>

ParkedWorker == WorkerStart(<<>>)

(***************************************************************************)
(* NavigationModes and AudioEngine (js/core/GalaxyEngine.js), with the     *)
(* keys R and M of CosmicGallery that reach them.                          *)
(*                                                                         *)
(* switchMode is an async function: the part up to the await of            *)
(* performTransition is one step, the part after the 1000 ms timer is      *)
(* another.  A step of it that throws ends the call there: switchMode has  *)
(* no try.                                                                 *)
(***************************************************************************)
modes == {"grid", "constellation", "timeline", "cosmos"}

\* the modes whose features start a requestAnimationFrame loop that checks
\* currentMode: enableHoverWave, addTwinklingStars, createOrbitalMotion
LoopModes == {"grid", "constellation", "cosmos"}

\* a synth is triggered, with the instruments set up or not
trigger == IF audioInitialized THEN "played" ELSE "uninitialized"

\* playHoverSound, playClickSound, playTransitionSound: if (!this.enabled) return
playSound == IF audioEnabled THEN trigger ELSE synthTriggers

\* stopAutoNavigation: clearInterval and autoNavInterval = null
stopAutoNavigation(interval) == FALSE

\* cleanupModeFeatures ends with stopAutoNavigation; autoNavigate is not
\* written
cleanupModeFeatures(interval) == stopAutoNavigation(interval)

\* the first call of the loop body in enableHoverWave, addTwinklingStars or
\* createOrbitalMotion: it asks for the next frame only if currentMode is
\* already its mode
startLoop(mode) ==
    IF mode \in LoopModes /\ currentMode = mode
    THEN [loops EXCEPT ![mode] = @ + 1]
    ELSE loops

\* switchMode(newMode) up to `await this.performTransition(...)`;
\* performTransition throws before its timer when broken is TRUE
switchMode(newMode, broken) ==
    IF newMode \notin modes \/ newMode = currentMode
    THEN UNCHANGED <<isTransitioning, transitions, synthTriggers>>
    ELSE /\ isTransitioning' = TRUE
         /\ synthTriggers' = playSound
         /\ transitions' =
               Append(transitions,
                      [from |-> currentMode, to |-> newMode,
                       pc |-> IF broken THEN "failed" ELSE "timer"])

\* a click on a mode button
ModeButton(mode, broken) ==
    /\ Len(transitions) < MaxSwitches
    /\ mode # currentMode
    /\ ~isTransitioning
    /\ switchMode(mode, broken)
    /\ UNCHANGED <<currentMode, galaxyMode, loops, autoNavigate,
                   autoNavInterval, targetIndex, audioEnabled,
                   audioInitialized, audioInits>>
    /\ UNCHANGED outsideModes

\* the keys 1 to 4
ModeKey(mode, broken) ==
    /\ Len(transitions) < MaxSwitches
    /\ ~isTransitioning
    /\ switchMode(mode, broken)
    /\ UNCHANGED <<currentMode, galaxyMode, loops, autoNavigate,
                   autoNavInterval, targetIndex, audioEnabled,
                   audioInitialized, audioInits>>
    /\ UNCHANGED outsideModes

\* the key R: CosmicGallery.randomizeView calls switchMode(randomMode)
RandomizeView(randomMode, broken) ==
    /\ Len(transitions) < MaxSwitches
    /\ switchMode(randomMode, broken)
    /\ UNCHANGED <<currentMode, galaxyMode, loops, autoNavigate,
                   autoNavInterval, targetIndex, audioEnabled,
                   audioInitialized, audioInits>>
    /\ UNCHANGED outsideModes

\* the timer of performTransition has fired: switchMode goes on with
\* changeMode, applyModeFeatures, currentMode = newMode, isTransitioning =
\* false; `thrown` names the call that throws, "none" if none does
TransitionResume(k, thrown) ==
    /\ k \in DOMAIN transitions
    /\ transitions[k].pc = "timer"
    /\ galaxyMode' = transitions[k].to
    /\ CASE thrown = "changeMode" ->
              /\ transitions' = [transitions EXCEPT ![k].pc = "failed"]
              /\ UNCHANGED <<currentMode, isTransitioning, loops,
                             autoNavInterval>>
         [] thrown = "applyModeFeatures" ->
              /\ transitions' = [transitions EXCEPT ![k].pc = "failed"]
              /\ autoNavInterval' = cleanupModeFeatures(autoNavInterval)
              /\ UNCHANGED <<currentMode, isTransitioning, loops>>
         [] OTHER ->
              /\ transitions' = [transitions EXCEPT ![k].pc = "done"]
              /\ autoNavInterval' = cleanupModeFeatures(autoNavInterval)
              /\ loops' = startLoop(transitions[k].to)
              /\ currentMode' = transitions[k].to
              /\ isTransitioning' = FALSE
    /\ UNCHANGED <<autoNavigate, targetIndex, audioEnabled, audioInitialized,
                   audioInits, synthTriggers>>
    /\ UNCHANGED outsideModes

\* a frame of a loop that asked for one: it returns if the mode is no longer
\* its own and asks for the next frame otherwise
LoopFrame(mode) ==
    /\ mode \in LoopModes
    /\ loops[mode] > 0
    /\ loops' = IF currentMode # mode THEN [loops EXCEPT ![mode] = @ - 1]
                ELSE loops
    /\ UNCHANGED <<currentMode, galaxyMode, isTransitioning, transitions,
                   autoNavigate, autoNavInterval, targetIndex, audioEnabled,
                   audioInitialized, audioInits, synthTriggers>>
    /\ UNCHANGED outsideModes

\* the space key: toggleAutoNavigate
SpaceKey ==
    /\ currentMode \in modes
    /\ ~isTransitioning
    /\ autoNavigate' = ~autoNavigate
    /\ IF autoNavigate'
       THEN autoNavInterval' = TRUE /\ targetIndex' = 0
       ELSE /\ autoNavInterval' = stopAutoNavigation(autoNavInterval)
            /\ UNCHANGED targetIndex
    /\ UNCHANGED <<currentMode, galaxyMode, isTransitioning, transitions,
                   loops, audioEnabled, audioInitialized, audioInits,
                   synthTriggers>>
    /\ UNCHANGED outsideModes

\* the callback of the interval of startAutoNavigation
AutoNavTick ==
    /\ autoNavInterval
    /\ targetIndex' = IF ~autoNavigate THEN targetIndex
                      ELSE (targetIndex + 1) % NumImages
    /\ UNCHANGED <<currentMode, galaxyMode, isTransitioning, transitions,
                   loops, autoNavigate, autoNavInterval, audioEnabled,
                   audioInitialized, audioInits, synthTriggers>>
    /\ UNCHANGED outsideModes

\* AudioEngine.toggle
toggle == ~audioEnabled

\* a click on the audio button: init() up to `await Tone.start()`, or toggle
AudioClick ==
    /\ currentMode \in modes
    /\ IF ~audioInitialized
       THEN /\ audioInits < MaxInits
            /\ audioInits' = audioInits + 1
            /\ UNCHANGED audioEnabled
       ELSE /\ audioEnabled' = toggle
            /\ UNCHANGED audioInits
    /\ UNCHANGED <<currentMode, galaxyMode, isTransitioning, transitions,
                   loops, autoNavigate, autoNavInterval, targetIndex,
                   audioInitialized, synthTriggers>>
    /\ UNCHANGED outsideModes

\* init() after the await: the instruments are set up, or the catch logs
AudioInitResume(ok) ==
    /\ audioInits > 0
    /\ audioInits' = audioInits - 1
    /\ IF ok THEN audioInitialized' = TRUE /\ audioEnabled' = TRUE
       ELSE UNCHANGED <<audioInitialized, audioEnabled>>
    /\ UNCHANGED <<currentMode, galaxyMode, isTransitioning, transitions,
                   loops, autoNavigate, autoNavInterval, targetIndex,
                   synthTriggers>>
    /\ UNCHANGED outsideModes

\* the key M of CosmicGallery: this.modules.audio.toggle()
KeyM ==
    /\ currentMode \in modes
    /\ audioEnabled' = toggle
    /\ UNCHANGED <<currentMode, galaxyMode, isTransitioning, transitions,
                   loops, autoNavigate, autoNavInterval, targetIndex,
                   audioInitialized, audioInits, synthTriggers>>
    /\ UNCHANGED outsideModes

\* the pointer goes over an image: playHoverSound
HoverSound ==
    /\ currentMode \in modes
    /\ synthTriggers' = playSound
    /\ UNCHANGED <<currentMode, galaxyMode, isTransitioning, transitions,
                   loops, autoNavigate, autoNavInterval, targetIndex,
                   audioEnabled, audioInitialized, audioInits>>
    /\ UNCHANGED outsideModes

\* the state the constructors of NavigationModes and AudioEngine leave
ModesStart(mode) ==
    /\ currentMode = mode
    /\ galaxyMode = mode
    /\ isTransitioning = FALSE
    /\ transitions = <<>>
    /\ loops = [m \in LoopModes |-> 0]
    /\ autoNavigate = FALSE
    /\ autoNavInterval = FALSE
    /\ targetIndex = 0
    /\ audioEnabled = FALSE
    /\ audioInitialized = FALSE
    /\ audioInits = 0
    /\ synthTriggers = "none"

ParkedModes == ModesStart("none")

(***************************************************************************)
(* The specifications.                                                     *)
(***************************************************************************)
Init ==
    /\ InitExtractor
    /\ InitGalleryVars
    /\ ParkedQuant
    /\ ParkedLightbox
    /\ ParkedLazy
    /\ ParkedEffects
    /\ ParkedInput
    /\ ParkedWorker
    /\ ParkedModes

Next ==
    \/ (\E n \in 1..MaxCalls : Call(n)) /\ UNCHANGED galleryVars
    \/ ExtractResume /\ UNCHANGED galleryVars
    \/ Dispose /\ UNCHANGED galleryVars

Spec == Init /\ [][Next]_vars

InitGallery ==
    /\ colorCache = <<>>
    /\ tainted = FALSE
    /\ disposed = FALSE
    /\ calls = [c \in GalleryIds |-> IdleCall]
    /\ microtasks = <<>>
    /\ InitGalleryVars
    /\ ParkedQuant
    /\ ParkedLightbox
    /\ ParkedLazy
    /\ ParkedEffects
    /\ ParkedInput
    /\ ParkedWorker
    /\ ParkedModes

NextGallery ==
    \/ InitModules
    \/ InitCatch
    \/ LoadGalleryImages
    \/ \E i \in GalleryIds : ImageLoad(i)
    \/ \E i \in GalleryIds : ImageError(i)
    \/ \E i \in GalleryIds : WaitTimeout(i)
    \/ \E i \in GalleryIds : LoaderExtract(i)
    \/ LoaderResume
    \/ \E i \in GalleryIds : LoaderStore(i)
    \/ LoadGalleryTail
    \/ InitFinish
    \/ StartExperience

\* timers fire and suspended code resumes; events and failures are up to
\* the environment
SpecGallery ==
    /\ InitGallery
    /\ [][NextGallery]_vars
    /\ \A i \in GalleryIds : WF_vars(WaitTimeout(i))
    /\ WF_vars(LoaderResume)
    /\ WF_vars(InitCatch)
    /\ WF_vars(StartExperience)

\* medianCut called again and again on one extractor, on any of the samples
InitQuant ==
    /\ InitExtractor
    /\ InitGalleryVars
    /\ mcPixels \in PixelSamples
    /\ mcCount \in Counts
    /\ mcPc = "idle"
    /\ boxes = <<>>
    /\ mcResults = <<>>
    /\ ParkedLightbox
    /\ ParkedLazy
    /\ ParkedEffects
    /\ ParkedInput
    /\ ParkedWorker
    /\ ParkedModes

NextQuant ==
    \/ McStart
    \/ McSplit
    \/ McFinish
    \/ McAgain

SpecQuant == InitQuant /\ [][NextQuant]_vars

\* a page run by one of the three controllers, and its user
InitLightbox ==
    /\ InitExtractor
    /\ InitGalleryVars
    /\ ParkedQuant
    /\ lbVariant \in Variants
    /\ lightboxes = <<>>
    /\ itemFocused = FALSE
    /\ ParkedLazy
    /\ ParkedEffects
    /\ ParkedInput
    /\ ParkedWorker
    /\ ParkedModes

NextLightbox ==
    \/ ItemClick
    \/ \E l \in 1..MaxLightboxes : AnimationFrame(l)
    \/ \E l \in 1..MaxLightboxes : CloseClick(l)
    \/ KeyEscape
    \/ KeyArrow
    \/ KeyEnter
    \/ \E l \in 1..MaxLightboxes : RemoveTimer(l)

SpecLightbox == InitLightbox /\ [][NextLightbox]_vars

\* a page whose images are observed by one of the two scripts; the images
\* start anywhere
InitLazy ==
    /\ InitExtractor
    /\ InitGalleryVars
    /\ ParkedQuant
    /\ ParkedLightbox
    /\ lazyVariant \in LazyVariants
    /\ position \in [LazyIds -> Positions]
    /\ observed = [i \in LazyIds |-> TRUE]
    /\ lastIntersecting = [i \in LazyIds |-> "none"]
    /\ queued = <<>>
    /\ loaded = [i \in LazyIds |-> FALSE]
    /\ reported = {}
    /\ notified = {}
    /\ everNear = {i \in LazyIds : near(position[i])}
    /\ ParkedEffects
    /\ ParkedInput
    /\ ParkedWorker
    /\ ParkedModes

NextLazy ==
    \/ \E i \in LazyIds : Scroll(i)
    \/ \E i \in LazyIds : ObserverSample(i)
    \/ ObserverCallback

SpecLazy == InitLazy /\ [][NextLazy]_vars


\* effects are created at any time; frames, timers and time go on
NextEffects ==
    \/ \E kind \in EffectKinds : CreateEffect(kind)
    \/ EffectTick
    \/ \E e \in 1..MaxEffects : EffectFrame(e)
    \/ \E e \in 1..MaxEffects : EffectTimer(e)

SpecEffects ==
    /\ Init
    /\ [][NextEffects]_vars
    /\ WF_vars(EffectTick)
    /\ \A e \in 1..MaxEffects : WF_vars(EffectFrame(e)) /\ WF_vars(EffectTimer(e))

\* one of the three scripts runs the page, over a gallery of any size
InitInput ==
    /\ InitExtractor
    /\ InitGalleryVars
    /\ ParkedQuant
    /\ ParkedLightbox
    /\ ParkedLazy
    /\ ParkedEffects
    /\ \E variant \in CtlVariants, length \in 0..MaxItems :
          InputStart(variant, length)
    /\ ParkedWorker
    /\ ParkedModes

NextInput ==
    \/ SetupEventListeners
    \/ \E key \in Keys : KeyDown(key)
    \/ \E deltaX \in {0 - 60, 60} : Swipe(deltaX)
    \/ ToggleAutoplay
    \/ AutoplayTick
    \/ MouseMove
    \/ Resize
    \/ ScrollEvent
    \/ GalleryDispose
    \/ Advance
    \/ DebounceLater
    \/ \E f \in Throttled : ThrottleRelease(f)

SpecInput ==
    /\ InitInput
    /\ [][NextInput]_vars
    /\ WF_vars(Advance)
    /\ WF_vars(DebounceLater)
    /\ \A f \in Throttled : WF_vars(ThrottleRelease(f))

\* the worker is installed over any caches an earlier version left
InitWorker ==
    /\ InitExtractor
    /\ InitGalleryVars
    /\ ParkedQuant
    /\ ParkedLightbox
    /\ ParkedLazy
    /\ ParkedEffects
    /\ ParkedInput
    /\ \E names \in SUBSET OldCaches :
          WorkerStart([name \in names |-> {urlIndex}])
    /\ ParkedModes

NextWorker ==
    \/ \E ok \in BOOLEAN : Install(ok)
    \/ Activate
    \/ \E name \in OldCaches \cup {CACHE_NAME} : DeleteResolve(name)
    \/ Claim
    \/ \E url \in Urls : FetchEvent(url)
    \/ \E r \in 1..MaxRequests : MatchResolve(r)
    \/ \E r \in 1..MaxRequests, outcome \in AllOutcomes :
          NetworkResolve(r, outcome)
    \/ \E r \in 1..MaxRequests : CachePut(r)

SpecWorker ==
    /\ InitWorker
    /\ [][NextWorker]_vars
    /\ WF_vars(Activate)
    /\ WF_vars(Claim)
    /\ \A name \in OldCaches \cup {CACHE_NAME} : WF_vars(DeleteResolve(name))

\* the gallery is up in the mode 'grid', audio off
InitModes ==
    /\ InitExtractor
    /\ InitGalleryVars
    /\ ParkedQuant
    /\ ParkedLightbox
    /\ ParkedLazy
    /\ ParkedEffects
    /\ ParkedInput
    /\ ParkedWorker
    /\ ModesStart("grid")

NextModes ==
    \/ \E mode \in modes, broken \in BOOLEAN : ModeButton(mode, broken)
    \/ \E mode \in modes, broken \in BOOLEAN : ModeKey(mode, broken)
    \/ \E mode \in modes, broken \in BOOLEAN : RandomizeView(mode, broken)
    \/ \E k \in 1..MaxSwitches,
          thrown \in {"none", "changeMode", "applyModeFeatures"} :
          TransitionResume(k, thrown)
    \/ \E mode \in LoopModes : LoopFrame(mode)
    \/ SpaceKey
    \/ AutoNavTick
    \/ AudioClick
    \/ \E ok \in BOOLEAN : AudioInitResume(ok)
    \/ KeyM
    \/ HoverSound

\* the timers of performTransition fire and the frames come
SpecModes ==
    /\ InitModes
    /\ [][NextModes]_vars
    /\ \A k \in 1..MaxSwitches :
          WF_vars(\E thrown \in {"none", "changeMode", "applyModeFeatures"} :
                      TransitionResume(k, thrown))
    /\ \A mode \in LoopModes : WF_vars(LoopFrame(mode))

(***************************************************************************)
(* Claims about the ColorExtractor, checked under Spec.                    *)
(***************************************************************************)

\* C1: extractColors never throws or rejects to its caller: for every image
\* input (readable, unreadable because of a cross-origin restriction, no
\* image data) the promise resolves to some palette.  Stated as: no call is
\* ever rejected.
C1_NeverRejects ==
    \A c \in DOMAIN calls : calls[c].pc # "rejected"

\* C2: every palette that extractColors returns has exactly the requested
\* number of entries, or fewer only if the image has fewer distinct visible
\* pixels than requested, on every return path (computed, cached, default,
\* cross-origin fallback).
C2_ExactCount ==
    \A c \in DOMAIN calls :
        calls[c].pc = "resolved" =>
            LET n == Len(calls[c].result.colors)
            IN  \/ n = calls[c].count
                \/ /\ n < calls[c].count
                   /\ Cardinality(distinctVisible(calls[c].image)) < calls[c].count

\* C5: the cross-origin fallback is deterministic in the image address: any
\* two calls that took the fallback for the same address got the same theme,
\* the same five colours in the same order, whatever was called before or in
\* between.
fallbackAddress(c) == src(calls[c].image)

C10_CacheAppendOnly ==
    [][~disposed' =>
          \A k \in DOMAIN colorCache :
              /\ k \in DOMAIN colorCache'
              /\ colorCache'[k].colors = colorCache[k].colors]_vars

\* C11: a palette is produced once per image: for one image address
\* analyzeImage runs at most once in a session, even when several
\* extractColors calls for that address are in flight together; later calls
\* are served from the cache.  Stated for the calls that use the cache and
\* whose analysis returned a palette, before dispose.
ranAnalysis(c) == calls[c].useCache /\ calls[c].path \in {"default", "cors"}

C11_AnalyzedOncePerAddress ==
    ~disposed =>
        \A c, d \in DOMAIN calls :
            (/\ c # d
             /\ ranAnalysis(c)
             /\ ranAnalysis(d))
            => cacheKey(calls[c].image) # cacheKey(calls[d].image)

(***************************************************************************)
(* Claims about the CosmicGallery, checked under SpecGallery.              *)
(***************************************************************************)

\* C7: waitForImage never rejects and always eventually resolves:
\* immediately if the image is already complete, otherwise on the first of
\* the load event, the error event and the timeout.  A promise with no
\* event seen is resolved only for a complete image, a pending promise has
\* seen no event and has its timeout armed, and every pending promise is
\* resolved in the end.
C7_WaitResolves ==
    /\ [](\A i \in GalleryIds :
            /\ wait[i].state \in {"none", "pending", "resolved"}
            /\ wait[i].state = "pending" => wait[i].events = 0 /\ wait[i].timer
            /\ (wait[i].state = "resolved" /\ wait[i].events = 0)
                  => imgState[i] # "unavailable")
    /\ \A i \in GalleryIds :
          (wait[i].state = "pending") ~> (wait[i].state = "resolved")

\* C7 witness: one promise was resolved by its timeout (the image is still
\* not loaded), another at once because the image was complete
C7_Witness ==
    \E i, j \in GalleryIds :
        /\ wait[i].state = "resolved" /\ wait[i].events = 1
        /\ imgState[i] = "unavailable"
        /\ wait[j].state = "resolved" /\ wait[j].events = 0

\* C8: when color extraction fails for a gallery image (no image data,
\* unreadable pixels, or an error raised during analysis) the image falls
\* back to a default palette: once its loader has returned there is a record
\* of it in this.images with a non-empty palette and a mood.
Moods ==
    {"neutral", "bright and airy", "dark and moody", "vibrant and energetic",
     "warm and inviting", "deep and mysterious"}

C8_FailedImageKept ==
    \A i \in GalleryIds :
        (imgDone[i] /\ calls[i].path \in {"default", "cors", "throws"})
        => \E k \in DOMAIN images :
              /\ images[k].index = i - 1
              /\ images[k].colors # <<>>
              /\ images[k].mood \in Moods

\* C9: if a step of init() throws, the controller falls back to the plain
\* gallery: the loading indicator is deactivated, the WebGL container and
\* the navigation-mode bar are hidden, the original gallery is displayed as
\* a grid, and initialized never becomes true.
C9_FallbackOnThrow ==
    /\ threw # "none" => ~initialized /\ initPc \in {"caught", "fallback"}
    /\ initPc = "caught" => threw # "none"
    /\ initPc = "fallback" =>
          /\ threw # "none"
          /\ ~dom.loadingActive
          /\ dom.galaxy = "none"
          /\ dom.navModes = "none"
          /\ dom.gallery = "grid"
          /\ ~startTimer

\* C9 witness: the listener setup threw after the images were loaded and
\* the original gallery hidden, and the fallback has run
C9_Witness ==
    /\ threw = "listeners"
    /\ initPc = "fallback"
    /\ dom.gallery = "grid"
    /\ images # <<>>

(***************************************************************************)
(* Claims about medianCut, checked under SpecQuant.                        *)
(***************************************************************************)

C19_SplitAtMedianOfWidest ==
    [][McSplit =>
        \E i \in DOMAIN boxes :
            LET group == boxPixels(boxes[i])
                first == boxPixels(boxes'[i])
                second == boxPixels(boxes'[i + 1])
                occurs(s, p) == Cardinality({k \in DOMAIN s : s[k] = p})
                widest == Max2(channelRange(group, 0),
                               Max2(channelRange(group, 1),
                                    channelRange(group, 2)))
            IN  /\ Len(boxes') = Len(boxes) + 1
                /\ SubSeq(boxes', 1, i - 1) = SubSeq(boxes, 1, i - 1)
                /\ SubSeq(boxes', i + 2, Len(boxes'))
                      = SubSeq(boxes, i + 1, Len(boxes))
                /\ \A j \in DOMAIN boxes :
                      getColorVolume(boxes[j]) <= getColorVolume(boxes[i])
                /\ \A p \in Range(group) \cup Range(first) \cup Range(second) :
                      occurs(group, p) = occurs(first, p) + occurs(second, p)
                /\ Len(second) - Len(first) \in {0 - 1, 0, 1}
                /\ \E d \in 0..2 :
                      /\ channelRange(group, d) = widest
                      /\ \A a \in DOMAIN first, b \in DOMAIN second :
                            first[a][d + 1] <= second[b][d + 1]
    ]_vars

\* C20: every entry of a palette medianCut returns for a non-empty pixel
\* array is a triple of integers within 0..255, the average of a group that
\* has pixels, and never NaN.
C20_PaletteEntriesValid ==
    \A a \in DOMAIN mcResults :
        mcResults[a].pixelArray # <<>> =>
            \A e \in DOMAIN mcResults[a].palette :
                /\ Len(mcResults[a].palette[e]) = 3
                /\ \A d \in 1..3 : mcResults[a].palette[e][d] \in 0..255

(***************************************************************************)
(* Claims about the lightbox, checked under SpecLightbox.                  *)
(***************************************************************************)

\* C3: opening and closing gallery items, in any order and with any timing
\* (close button, backdrop click, Escape, Enter on a focused item, clicks
\* during the 300 ms close delay), never leaves more than one lightbox
\* element attached to the document.
C3_AtMostOneLightbox ==
    Cardinality(attachedSet(lightboxes)) <= 1

(***************************************************************************)
(* Claims about lazy loading, checked under SpecLazy.                      *)
(***************************************************************************)

\* C4: an image element carries the 'loaded' class only after the
\* intersection observer has reported it as intersecting, and then it has
\* been inside the viewport region grown by the 50px margin: an image that
\* never intersected does not carry the class.
C4_LoadedOnlyAfterIntersecting ==
    \A i \in LazyIds :
        loaded[i] => i \in reported /\ i \in everNear

\* C4 witness: the callback ran for two images, one reported as
\* intersecting and now loaded, the other reported as not intersecting and
\* left alone
C4_Witness ==
    \E i, j \in LazyIds :
        /\ loaded[i] /\ i \in reported
        /\ j \in notified /\ j \notin reported /\ ~loaded[j]

(***************************************************************************)
(* Claims about the effects, checked under SpecEffects.                    *)
(***************************************************************************)

C13_DisposeDetaches ==
    galleryDisposed =>
        /\ autoplayInterval # "running"
        /\ ~hasListener("mousemove")
        /\ ~hasListener("resize")
        /\ lateRuns \cap {"mousemove", "resize"} = {}

\* C16: keyboard navigation is debounced at 100 ms: the debounced function
\* runs only when 100 ms have passed since the last keydown, so never inside
\* a burst; it runs once for the burst, with the event of the last keydown;
\* and once time has passed since a keydown, it runs unless a key comes first.
C16_DebouncedNavigation ==
    /\ [](/\ lastRun.gap = ticks(debounceWait)
          /\ lastRun.key = lastRun.last
          /\ lastRun.nth = 1
          /\ Len(timers) <= 1)
    /\ (timers # <<>> /\ lastKey.since > 0)
          ~> (lastKey.runs = 1 \/ lastKey.since = 0)

\* C16 witness: a burst of keydowns ended with an arrow key, and the function
\* ran once, for that key
C16_Witness ==
    /\ lastRun.afterBurst
    /\ lastRun.key = "ArrowRight"
    /\ lastKey.runs = 1
    /\ timers = <<>>

\* C17: throttle(func, limit) never runs func twice within limit ms: the
\* first call of a window runs at once and sets inThrottle, the calls that
\* follow are dropped until the timer of limit ms has reset it.
C17_ThrottleSpacing ==
    \A f \in Throttled :
        /\ throttles[f].minGap < 0 \/ throttles[f].minGap >= ticks(limitOf(f))
        /\ throttles[f].inThrottle = throttles[f].timer
        /\ throttles[f].inThrottle =>
              throttles[f].sinceRun + throttles[f].left = ticks(limitOf(f))

\* C17 witness: both throttled functions ran twice, and handleScroll is in
\* its window, where a scroll event is dropped
C17_Witness ==
    /\ \A f \in Throttled : throttles[f].minGap >= ticks(limitOf(f))
    /\ throttles["handleScroll"].inThrottle
    /\ throttles["handleScroll"].sinceRun > 0

\* C18: arrow-key, swipe and autoplay navigation keeps the index within
\* 0..n-1 for a gallery of n >= 1 items: going on from the last item leads to
\* the first, going back from the first leads to the last, and every other
\* move is one item on or one item back.
C18_IndexWraps ==
    itemCount >= 1 =>
        /\ currentIndex \in 0..(itemCount - 1)
        /\ lastMove.direction = 1 =>
              lastMove.to = IF lastMove.from = itemCount - 1
                            THEN 0 ELSE lastMove.from + 1
        /\ lastMove.direction = 0 - 1 =>
              lastMove.to = IF lastMove.from = 0
                            THEN itemCount - 1 ELSE lastMove.from - 1
        /\ lastMove.direction # 0 => currentIndex = lastMove.to

\* C18 witness: the debounced handler has gone on from the last of three
\* items to the first
C18_Witness ==
    /\ ctlVariant = "simple"
    /\ itemCount = 3
    /\ lastMove = [from |-> 2, to |-> 0, direction |-> 1]
    /\ currentIndex = 0

(***************************************************************************)
(* Claims about the service worker, checked under SpecWorker.              *)
(***************************************************************************)

\* C14: activation cleans the old caches: the clients are claimed only when
\* every cache whose name is not CACHE_NAME has been deleted and the cache
\* CACHE_NAME has not, and an activation that has begun does claim them.
C14_ActivateCleansCaches ==
    /\ [](claimed => DOMAIN cacheStorage = {CACHE_NAME})
    /\ [](swState = "activating" =>
             /\ CACHE_NAME \in DOMAIN cacheStorage
             /\ urlsToCache \subseteq cacheStorage[CACHE_NAME])
    /\ (swState = "activating") ~> claimed

\* C14 witness: two old caches were there at install; the clients are claimed
C14_Witness ==
    /\ claimed
    /\ cacheNames = OldCaches \cup {CACHE_NAME}
    /\ requests = <<>>
    /\ DOMAIN cacheStorage = {CACHE_NAME}
    /\ cacheStorage[CACHE_NAME] = urlsToCache

\* C15: fetch is cache-first: a request is intercepted exactly when it goes
\* to the own origin, to fonts.googleapis.com or to cdnjs.cloudflare.com; an
\* intercepted request with a cached response gets it with no network
\* request, and the network is used only when there was none.
C15_CacheFirst ==
    \A r \in DOMAIN requests :
        /\ requests[r].intercepted <=>
              \/ startsWith(requests[r].url, origin)
              \/ host(requests[r].url)
                    \in {"fonts.googleapis.com", "cdnjs.cloudflare.com"}
        /\ requests[r].matched = "hit" =>
              ~requests[r].network /\ requests[r].response = "cached"
        /\ requests[r].network => requests[r].matched = "miss"

C22_AlwaysAResponse ==
    \A r \in DOMAIN requests :
        (requests[r].intercepted /\ requests[r].pc \in {"put", "done"}) =>
            requests[r].response \in {"cached", "network", "fallback"}

(***************************************************************************)
(* Claims about NavigationModes and AudioEngine, checked under SpecModes.  *)
(***************************************************************************)

\* C23: at most one mode transition is in progress at any time: while
\* isTransitioning is true no second switchMode starts, whether it comes
\* from a mode button, the keys 1-4 or randomizeView on the key R.
C23_OneTransitionAtATime ==
    Cardinality({k \in DOMAIN transitions : transitions[k].pc = "timer"}) <= 1

\* C24: every started mode transition finishes: a switchMode call that set
\* isTransitioning is either still waiting for its timer or has ended with
\* currentMode and the mode of the galaxy set to its mode and isTransitioning
\* reset, also when performTransition, changeMode or applyModeFeatures fails;
\* so isTransitioning is never left set with no call to reset it.
C24_TransitionFinishes ==
    /\ \A k \in DOMAIN transitions : transitions[k].pc \in {"timer", "done"}
    /\ isTransitioning =>
          \E k \in DOMAIN transitions : transitions[k].pc = "timer"

\* C25: the animation loop of a mode follows the active mode: once a switch
\* has completed, the loop of the current mode (hover wave in grid, twinkle
\* in constellation, orbital motion in cosmos) is running, and no loop of
\* another mode runs on after its next frame.
C25_LoopsFollowMode ==
    (/\ \E k \in DOMAIN transitions : transitions[k].pc = "done"
     /\ currentMode \in LoopModes)
    => loops[currentMode] >= 1

\* C26: autoNavigate and the auto-navigation timer stay in step: autoNavigate
\* is true exactly when autoNavInterval holds an active interval.
C26_AutoNavigateInStep == autoNavigate <=> autoNavInterval

\* C27: in AudioEngine enabled implies initialized: audio is never enabled,
\* and no synth is triggered, before init has completed.
C27_EnabledImpliesInitialized ==
    /\ audioEnabled => audioInitialized
    /\ synthTriggers # "uninitialized"

=============================================================================
